---- MODULE Spec2Model ----
(***************************************************************************)
(* A model of the fat-tony web application's ingestion pipeline:           *)
(*   - parseCSVLine, parseNumber, parseCurrency, parsePositionsCSV and     *)
(*     parseSummaryCSV of apps/web/src/utils/csvParser.ts;                 *)
(*   - the load sequence of App (apps/web/src/App.tsx).                    *)
(* Text is held as TLA+ strings (sequences of characters); numbers are     *)
(* held as integers counting units of 10^-FracDigits.                      *)
(***************************************************************************)
EXTENDS Integers, Sequences, FiniteSets, TLC

VARIABLES
    \* parseCSVLine run on its own
    line, ci, current, inQuotes, result, csvPc,
    \* parsePositionsCSV
    posContent, posLines, posI, positions, posPc,
    \* parseSummaryCSV
    sumContent, sumLines, sumI, inAccountSummaries, inCombinedTotals,
    accountSummaries, totalFreeFunds, totalPortfolio, totalResult, currency,
    generatedDate, pushedAt, totalsAt, sumPc,
    \* App.loadData
    responses, bodies, texts, loadedPositions, summaryData, thrown,
    portfolioData, buyHistory, sellHistory, loading, error,
    errorsRecorded, parsed, appPc,
    \* the rendered application: App's tab and account selection, the
    \* mounted table's sort state and rows
    viewPositions, viewBuyHistory, viewSellHistory, activeTab,
    selectedAccount, sortKey, sortDirection, streak, lastClicked, viewPc,
    \* the two useMemo cells of PortfolioTable: dependencies and value
    filteredMemo, sortedMemo,
    \* parseNumber and parseCurrency run on their own
    token, tokenKind, tokenValue, numberOut, currencyOut, tokPc,
    \* the filter and the sort of a table run on their own
    sortArgs, sortOut, sortPc

csvVars == <<line, ci, current, inQuotes, result, csvPc>>
posVars == <<posContent, posLines, posI, positions, posPc>>
sumVars == <<sumContent, sumLines, sumI, inAccountSummaries, inCombinedTotals,
             accountSummaries, totalFreeFunds, totalPortfolio, totalResult,
             currency, generatedDate, pushedAt, totalsAt, sumPc>>
appVars == <<responses, bodies, texts, loadedPositions, summaryData, thrown,
             portfolioData, buyHistory, sellHistory, loading, error,
             errorsRecorded, parsed, appPc>>
viewVars == <<viewPositions, viewBuyHistory, viewSellHistory, activeTab,
              selectedAccount, sortKey, sortDirection, streak, lastClicked,
              viewPc, filteredMemo, sortedMemo>>
tokVars == <<token, tokenKind, tokenValue, numberOut, currencyOut, tokPc>>
sortVars == <<sortArgs, sortOut, sortPc>>
vars == <<csvVars, posVars, sumVars, appVars, viewVars, tokVars, sortVars>>

(***************************************************************************)
(* Bounds of the model.                                                    *)
(***************************************************************************)
\* longest line given to parseCSVLine when it is run on its own
MaxLineLen == 4
\* most lines of a positions document
MaxPosLines == 3
\* most lines of a summary document
MaxSumLines == 3
\* decimal places a number keeps
FracDigits == 3
\* most rows of a table
MaxRows == 3
\* most clicks in a row on one header
MaxStreak == 3
\* most rows of a buy-history table sorted on a field that holds N/A
MaxMixedRows == 4

(***************************************************************************)
(* Strings.                                                                *)
(***************************************************************************)
Char(s, k) == SubSeq(s, k, k)

SetMin(S) == CHOOSE m \in S : \A n \in S : m <= n
SetMax(S) == CHOOSE m \in S : \A n \in S : n <= m

\* the characters String.prototype.trim removes, among those the model uses
IsWhiteSpace(c) == c \in {" ", "\t", "\r", "\n"}

\* String.prototype.trim
Trim(s) ==
    LET keep == {k \in 1..Len(s) : ~IsWhiteSpace(Char(s, k))}
    IN  IF keep = {} THEN "" ELSE SubSeq(s, SetMin(keep), SetMax(keep))

\* the places where pat occurs in s
Occurrences(s, pat) ==
    {k \in 1..(Len(s) - Len(pat) + 1) : SubSeq(s, k, k + Len(pat) - 1) = pat}

\* String.prototype.includes
Includes(s, pat) == Len(pat) = 0 \/ Occurrences(s, pat) # {}

\* String.prototype.split('\n')
RECURSIVE SplitLines(_)
SplitLines(s) ==
    LET nl == Occurrences(s, "\n")
    IN  IF nl = {} THEN <<s>>
        ELSE <<SubSeq(s, 1, SetMin(nl) - 1)>>
                 \o SplitLines(SubSeq(s, SetMin(nl) + 1, Len(s)))

\* the document whose lines are ls
RECURSIVE JoinLines(_)
JoinLines(ls) ==
    IF Len(ls) = 0 THEN ""
    ELSE IF Len(ls) = 1 THEN ls[1]
    ELSE ls[1] \o "\n" \o JoinLines(Tail(ls))

\* s without the characters of the set drop: value.replace(/[...]/g, ''),
\* computed by halves to keep the evaluation shallow
RECURSIVE Strip(_, _)
Strip(s, drop) ==
    IF Len(s) = 0 THEN ""
    ELSE IF Len(s) = 1 THEN (IF s \in drop THEN "" ELSE s)
    ELSE LET h == Len(s) \div 2
         IN  Strip(SubSeq(s, 1, h), drop) \o Strip(SubSeq(s, h + 1, Len(s)), drop)

\* every string over the alphabet, of length n
RECURSIVE StringsOfLen(_, _)
StringsOfLen(alphabet, n) ==
    IF n = 0 THEN {""}
    ELSE {s \o c : s \in StringsOfLen(alphabet, n - 1), c \in alphabet}

\* every sequence over S of length at most n
SeqsUpTo(S, n) == UNION {[1..k -> S] : k \in 0..n}

(***************************************************************************)
(* parseCSVLine: the loop body as a function of the scanner's state, the   *)
(* loop as its fold over the line.                                         *)
(***************************************************************************)
CSVStart == [result |-> <<>>, current |-> "", inQuotes |-> FALSE]

\* a faulty variant: a comma ends the field inside quotes too
CSVStepCommaAlways(st, char) ==
    IF char = "\"" THEN [st EXCEPT !.inQuotes = ~st.inQuotes]
    ELSE IF char = ","
         THEN [st EXCEPT !.result = Append(st.result, st.current),
                         !.current = ""]
    ELSE [st EXCEPT !.current = st.current \o char]

CSVStep(st, char) ==
    IF char = "\"" THEN [st EXCEPT !.inQuotes = ~st.inQuotes]
    ELSE IF char = "," /\ ~st.inQuotes
         THEN [st EXCEPT !.result = Append(st.result, st.current),
                         !.current = ""]
    ELSE [st EXCEPT !.current = st.current \o char]

\* the loop over the characters of s, left to right from the state st:
\* the left half first, then the right half from the state the left half
\* ends in
RECURSIVE CSVScan(_, _)
CSVScan(st, s) ==
    IF Len(s) = 0 THEN st
    ELSE IF Len(s) = 1 THEN CSVStep(st, s)
    ELSE LET h   == Len(s) \div 2
             mid == CSVScan(st, SubSeq(s, 1, h))
         IN  IF mid.inQuotes \in BOOLEAN
             THEN CSVScan(mid, SubSeq(s, h + 1, Len(s)))
             ELSE mid

parseCSVLine(s) ==
    LET st == CSVScan(CSVStart, s) IN Append(st.result, st.current)

(***************************************************************************)
(* Numbers.  A finite number x is held as the integer x * 10^FracDigits;   *)
(* the model's inputs carry at most FracDigits decimal places.             *)
(***************************************************************************)
RECURSIVE Pow10(_)
Pow10(n) == IF n <= 0 THEN 1 ELSE 10 * Pow10(n - 1)

\* the number 1
Unit == Pow10(FracDigits)

\* Infinity, above every finite number the model holds
InfinityValue == Pow10(9)

Digits == "0123456789"
IsDigit(c) == Len(c) = 1 /\ Occurrences(Digits, c) # {}
DigitVal(c) == SetMin(Occurrences(Digits, c)) - 1

\* how many digits s starts with
DigitRun(s) ==
    LET other == {k \in 1..Len(s) : ~IsDigit(Char(s, k))}
    IN  IF other = {} THEN Len(s) ELSE SetMin(other) - 1

\* the natural number a string of digits denotes
RECURSIVE NatOf(_)
NatOf(s) ==
    IF Len(s) = 0 THEN 0
    ELSE 10 * NatOf(SubSeq(s, 1, Len(s) - 1)) + DigitVal(Char(s, Len(s)))

Rest(s, k) == SubSeq(s, k, Len(s))

NaN == [kind |-> "NaN", value |-> 0]

\* x * 10^exp for the decimal x whose digits are mant, nFrac of them after
\* the point
PFFinish(neg, mant, nFrac, exp) ==
    LET shift == exp - nFrac + FracDigits
        mag   == IF shift >= 0 THEN mant * Pow10(shift)
                 ELSE mant \div Pow10(0 - shift)
    IN  [kind |-> "number", value |-> IF neg THEN 0 - mag ELSE mag]

\* the exponent a sign and digits denote: 0 when no digit follows
PFSignedDigits(u) ==
    IF Len(u) > 0 /\ Char(u, 1) = "-"
    THEN 0 - NatOf(SubSeq(u, 2, 1 + DigitRun(Rest(u, 2))))
    ELSE IF Len(u) > 0 /\ Char(u, 1) = "+"
    THEN NatOf(SubSeq(u, 2, 1 + DigitRun(Rest(u, 2))))
    ELSE NatOf(SubSeq(u, 1, DigitRun(u)))

\* the exponent part at the head of t, 0 when there is none
PFExponent(t) ==
    IF Len(t) > 0 /\ Char(t, 1) \in {"e", "E"}
    THEN PFSignedDigits(Rest(t, 2))
    ELSE 0

\* digits before and after the point, and what follows them
PFMantissa(neg, intDigits, fracDigits, after) ==
    IF intDigits = "" /\ fracDigits = "" THEN NaN
    ELSE PFFinish(neg, NatOf(intDigits \o fracDigits), Len(fracDigits),
                  PFExponent(after))

\* the fraction: fracAll is what follows the point
PFFraction(neg, intDigits, fracAll) ==
    PFMantissa(neg, intDigits, SubSeq(fracAll, 1, DigitRun(fracAll)),
               Rest(fracAll, DigitRun(fracAll) + 1))

\* afterInt is what follows the integer digits
PFPoint(neg, intDigits, afterInt) ==
    IF Len(afterInt) > 0 /\ Char(afterInt, 1) = "."
    THEN PFFraction(neg, intDigits, Rest(afterInt, 2))
    ELSE PFMantissa(neg, intDigits, "", afterInt)

\* body is the text after the sign
PFBody(neg, body) ==
    IF Len(body) >= 8 /\ SubSeq(body, 1, 8) = "Infinity"
    THEN [kind |-> "Infinity",
          value |-> IF neg THEN 0 - InfinityValue ELSE InfinityValue]
    ELSE PFPoint(neg, SubSeq(body, 1, DigitRun(body)),
                 Rest(body, DigitRun(body) + 1))

PFSigned(s) ==
    IF Len(s) > 0 /\ Char(s, 1) \in {"+", "-"}
    THEN PFBody(Char(s, 1) = "-", Rest(s, 2))
    ELSE PFBody(FALSE, s)

\* the global parseFloat: the longest prefix of the trimmed text that is a
\* decimal literal (sign, digits, fraction, exponent, or Infinity), NaN when
\* there is none
parseFloat(text) == PFSigned(Trim(text))

\* a faulty variant: the thousands separators are left in
parseNumberKeepCommas(value) ==
    LET r == parseFloat(Trim(Strip(value, {"\"", "+"})))
    IN  IF r.kind = "NaN" THEN 0 ELSE r.value

\* parseNumber: NaN and 0 are falsy, so `parseFloat(cleaned) || 0` is 0 there
parseNumber(value) ==
    LET r == parseFloat(Trim(Strip(value, {"\"", ",", "+"})))
    IN  IF r.kind = "NaN" THEN 0 ELSE r.value

\* a faulty variant: the sign is stripped as parseNumber strips it
parseCurrencyLikeNumber(value) == Trim(Strip(value, {"\"", ",", "+"}))

\* value.replace(/[",]/g, '').trim()
parseCurrency(value) == Trim(Strip(value, {"\"", ","}))

(***************************************************************************)
(* parseCSVLine run on its own, one character a step.                      *)
(***************************************************************************)
CSVAlphabet == {"a", ",", "\"", " "}

CSVLines == UNION {StringsOfLen(CSVAlphabet, n) : n \in 0..MaxLineLen}

CSVState == [result |-> result, current |-> current, inQuotes |-> inQuotes]

CSVIdle ==
    /\ line = "" /\ ci = 0 /\ current = "" /\ inQuotes = FALSE
    /\ result = <<>> /\ csvPc = "idle"

CSVInit ==
    /\ line \in CSVLines
    /\ ci = 0 /\ current = "" /\ inQuotes = FALSE /\ result = <<>>
    /\ csvPc = "scan"

CSVAdvance(char) ==
    LET st == CSVStep(CSVState, char)
    IN  /\ result' = st.result
        /\ current' = st.current
        /\ inQuotes' = st.inQuotes
        /\ ci' = ci + 1
        /\ UNCHANGED <<line, csvPc>>
        /\ UNCHANGED <<posVars, sumVars, appVars, viewVars, tokVars, sortVars>>

\* char === '"'
CSVQuote ==
    /\ csvPc = "scan" /\ ci < Len(line)
    /\ Char(line, ci + 1) = "\""
    /\ CSVAdvance("\"")

\* char === ','
CSVComma ==
    /\ csvPc = "scan" /\ ci < Len(line)
    /\ Char(line, ci + 1) = ","
    /\ CSVAdvance(",")

\* any other character
CSVOther ==
    /\ csvPc = "scan" /\ ci < Len(line)
    /\ Char(line, ci + 1) \notin {"\"", ","}
    /\ CSVAdvance(Char(line, ci + 1))

\* a faulty variant: a last field that is empty is not returned
CSVReturnDropsEmpty ==
    /\ csvPc = "scan" /\ ci = Len(line)
    /\ result' = IF current = "" THEN result ELSE Append(result, current)
    /\ csvPc' = "done"
    /\ UNCHANGED <<line, ci, current, inQuotes>>
    /\ UNCHANGED <<posVars, sumVars, appVars, viewVars, tokVars, sortVars>>

\* result.push(current); return result
CSVReturn ==
    /\ csvPc = "scan" /\ ci = Len(line)
    /\ result' = Append(result, current)
    /\ csvPc' = "done"
    /\ UNCHANGED <<line, ci, current, inQuotes>>
    /\ UNCHANGED <<posVars, sumVars, appVars, viewVars, tokVars, sortVars>>


(***************************************************************************)
(* parsePositionsCSV.                                                      *)
(***************************************************************************)
PosHeader == "Account Type,Name,Ticker,Quantity of Shares,Price owned Currency,Current Price Currency,Price Owned,Price Owned (GBP),Current Price,Current Price (GBP),Value (GBP),Change (GBP),Change %"
PosRowA == "Trading,Microsoft,MSFT_US_EQ,0.138,USD,USD,415.80,328.48,510.35,403.18,70.43,+13.05,22.74"
PosRowB == "ISA,Amazon,AMZN_US_EQ,1.43,USD,USD,227.49,179.72,235.52,186.06,336.79,+11.48,3.53"
\* quoted fields holding commas, and white space around the row
PosRowQuoted == "  ISA,\"Alphabet, Inc.\",GOOGL_US_EQ,2,\"USD\",GBX,\"1,100.50\",880.4,150,120,240,-9.5,-3.81\r"
\* 12 fields
PosRowShort == "Trading,Microsoft,MSFT_US_EQ,0.138,USD,USD,415.80,328.48,510.35,403.18,70.43,+13.05"
\* 13 commas and an unbalanced quote: everything after it is one field
PosRowUnbalanced == "Trading,\"Micro,soft,MSFT_US_EQ,0.138,USD,USD,415.80,328.48,510.35,403.18,70.43,+13.05,22.74"
\* 14 fields
PosRowLong == "ISA,Amazon,AMZN_US_EQ,1.43,USD,USD,227.49,179.72,235.52,186.06,336.79,+11.48,3.53,extra"

PosPool == {PosHeader, PosRowA, PosRowB, PosRowQuoted, PosRowShort,
            PosRowUnbalanced, PosRowLong, "", "  "}

PosDocuments == {JoinLines(d) : d \in SeqsUpTo(PosPool, MaxPosLines)}

\* a faulty variant: the bound is off by one
PosTooFewOff(values) == Len(values) < 12

\* values.length < 13
PosTooFew(values) == Len(values) < 13

\* parseNumber and parseCurrency call value.replace: on undefined, which
\* values[k] is past the end of values, that throws a TypeError
PosThrows(values) == Len(values) < 13

\* a faulty variant: valueGBP and changeGBP read from each other's columns
PositionOfSwapped(values) ==
    [accountType          |-> values[1],
     name                 |-> values[2],
     ticker               |-> values[3],
     quantity             |-> parseNumber(values[4]),
     priceOwnedCurrency   |-> parseCurrency(values[5]),
     currentPriceCurrency |-> parseCurrency(values[6]),
     priceOwned           |-> parseNumber(values[7]),
     priceOwnedGBP        |-> parseNumber(values[8]),
     currentPrice         |-> parseNumber(values[9]),
     currentPriceGBP      |-> parseNumber(values[10]),
     valueGBP             |-> parseNumber(values[12]),
     changeGBP            |-> parseNumber(values[11]),
     changePercent        |-> parseNumber(values[13])]

\* the record pushed for a row; values[k] of the code is values[k + 1] here
PositionOf(values) ==
    [accountType          |-> values[1],
     name                 |-> values[2],
     ticker               |-> values[3],
     quantity             |-> parseNumber(values[4]),
     priceOwnedCurrency   |-> parseCurrency(values[5]),
     currentPriceCurrency |-> parseCurrency(values[6]),
     priceOwned           |-> parseNumber(values[7]),
     priceOwnedGBP        |-> parseNumber(values[8]),
     currentPrice         |-> parseNumber(values[9]),
     currentPriceGBP      |-> parseNumber(values[10]),
     valueGBP             |-> parseNumber(values[11]),
     changeGBP            |-> parseNumber(values[12]),
     changePercent        |-> parseNumber(values[13])]

\* one turn of the loop on the line raw
PosStep(st, raw) ==
    LET l      == Trim(raw)
        values == parseCSVLine(l)
    IN  IF l = "" THEN st
        ELSE IF PosTooFew(values) THEN st
        ELSE IF PosThrows(values) THEN [st EXCEPT !.threw = TRUE]
        ELSE [st EXCEPT !.positions = Append(@, PositionOf(values))]

RECURSIVE PosLoop(_, _, _)
PosLoop(st, ls, k) ==
    IF k >= Len(ls) \/ st.threw THEN st
    ELSE PosLoop(PosStep(st, ls[k + 1]), ls, k + 1)

\* the whole function: what it returns, and whether it threw
parsePositionsCSV(csvContent) ==
    PosLoop([positions |-> <<>>, threw |-> FALSE],
            SplitLines(Trim(csvContent)), 1)

PosState == [positions |-> positions, threw |-> posPc = "threw"]

PosIdle ==
    /\ posContent = "" /\ posLines = <<>> /\ posI = 0 /\ positions = <<>>
    /\ posPc = "idle"

PosInit ==
    /\ posContent \in PosDocuments
    /\ posLines = <<>> /\ posI = 0 /\ positions = <<>>
    /\ posPc = "call"

\* a faulty variant: the loop starts at the first line
PosStartAtZero ==
    /\ posPc = "call"
    /\ posLines' = SplitLines(Trim(posContent))
    /\ positions' = <<>>
    /\ posI' = 0
    /\ posPc' = "loop"
    /\ UNCHANGED posContent
    /\ UNCHANGED <<csvVars, sumVars, appVars, viewVars, tokVars, sortVars>>

\* const lines = csvContent.trim().split('\n'); the loop starts at i = 1
PosStart ==
    /\ posPc = "call"
    /\ posLines' = SplitLines(Trim(posContent))
    /\ positions' = <<>>
    /\ posI' = 1
    /\ posPc' = "loop"
    /\ UNCHANGED posContent
    /\ UNCHANGED <<csvVars, sumVars, appVars, viewVars, tokVars, sortVars>>

PosTurn ==
    LET st == PosStep(PosState, posLines[posI + 1])
    IN  /\ positions' = st.positions
        /\ posPc' = IF st.threw THEN "threw" ELSE "loop"
        /\ posI' = posI + 1
        /\ UNCHANGED <<posContent, posLines>>
        /\ UNCHANGED <<csvVars, sumVars, appVars, viewVars, tokVars, sortVars>>

\* if (!line) continue
PosSkipEmpty ==
    /\ posPc = "loop" /\ posI < Len(posLines)
    /\ Trim(posLines[posI + 1]) = ""
    /\ PosTurn

\* if (values.length < 13) continue
PosSkipShort ==
    /\ posPc = "loop" /\ posI < Len(posLines)
    /\ Trim(posLines[posI + 1]) # ""
    /\ PosTooFew(parseCSVLine(Trim(posLines[posI + 1])))
    /\ PosTurn

\* positions.push({...})
PosPush ==
    /\ posPc = "loop" /\ posI < Len(posLines)
    /\ Trim(posLines[posI + 1]) # ""
    /\ ~PosTooFew(parseCSVLine(Trim(posLines[posI + 1])))
    /\ PosTurn

\* return positions
PosReturn ==
    /\ posPc = "loop" /\ posI >= Len(posLines)
    /\ posPc' = "done"
    /\ UNCHANGED <<posContent, posLines, posI, positions>>
    /\ UNCHANGED <<csvVars, sumVars, appVars, viewVars, tokVars, sortVars>>


(***************************************************************************)
(* parseSummaryCSV.                                                        *)
(***************************************************************************)
MarkerAS == "ACCOUNT SUMMARIES"
MarkerCT == "COMBINED TOTALS"
HeaderAS == "ACCOUNT,FREE_FUNDS"
HeaderCT == "TOTAL_FREE_FUNDS"

SumRowA == "Stocks & Shares ISA,\"7,538.58\",\"11,082.36\",+577.68,GBP"
SumRowB == "  Invest Account,0.14,\"7,390.89\",\"+4,898.07\",GBP\r"
SumTotalsA == "\"7,538.72\",\"8,473.25\",\"+5,475.75\",GBP"
SumTotalsB == "1,2,-3,USD"
\* an unbalanced quote: 2 fields
SumUnbalanced == "a,\"b,1,2,3,4"
\* lines that hold a marker and tokenize to 5 fields
SumMarkedCT == "x,COMBINED TOTALS,1,2,3"
SumMarkedAS == "ACCOUNT SUMMARIES,4,5,6,EUR"
\* a line that holds both markers
SumBothMarkers == "ACCOUNT SUMMARIES COMBINED TOTALS"
SumDateLine == "Trading 212 Portfolio Summary - Generated on 2025-11-16 11:02:10"

SumPool == {MarkerAS, MarkerCT,
            "ACCOUNT,FREE_FUNDS,PORTFOLIO,RESULT,CURRENCY",
            "TOTAL_FREE_FUNDS,TOTAL_PORTFOLIO,TOTAL_RESULT,CURRENCY",
            SumRowA, SumRowB, SumTotalsA, SumTotalsB,
            SumUnbalanced, SumMarkedCT, SumMarkedAS, SumBothMarkers,
            SumDateLine, ""}

SumDocuments == {JoinLines(d) : d \in SeqsUpTo(SumPool, MaxSumLines)}

\* lines with and without a generation date
SumDateBare == "Generated on"
SumDateTwice == "Summary Generated on 11:02 Generated on 9\r"

DatePool == {SumDateLine, SumDateBare, SumDateTwice, MarkerAS, MarkerCT,
             SumRowA, ""}

DateDocuments == {JoinLines(d) : d \in SeqsUpTo(DatePool, MaxSumLines)}

\* the characters the pattern's `.` does not match
LineTerminators == {"\n", "\r"}

\* lines[0].match(/Generated on (.+)/): the capture of the leftmost match,
\* "" when the pattern does not match
MatchGeneratedOn(l) ==
    LET pat    == "Generated on "
        starts == {k \in Occurrences(l, pat) :
                      /\ k + Len(pat) <= Len(l)
                      /\ Char(l, k + Len(pat)) \notin LineTerminators}
        from   == SetMin(starts) + Len(pat)
        stops  == {j \in from..Len(l) : Char(l, j) \in LineTerminators}
        to     == IF stops = {} THEN Len(l) ELSE SetMin(stops) - 1
    IN  IF starts = {} THEN "" ELSE SubSeq(l, from, to)

\* a faulty variant: the date is read from the last line that holds one
GeneratedDateOfAnyLine(ls) ==
    LET dated == {k \in 1..Len(ls) : MatchGeneratedOn(ls[k]) # ""}
    IN  IF dated = {} THEN "" ELSE MatchGeneratedOn(ls[SetMax(dated)])

\* the generated date read from the first line
GeneratedDateOf(ls) ==
    IF Len(ls) > 0 /\ Includes(ls[1], "Generated on")
    THEN MatchGeneratedOn(ls[1])
    ELSE ""

\* the record pushed for a line of the account-summaries section
SummaryOf(values) ==
    [account   |-> values[1],
     freeFunds |-> parseNumber(values[2]),
     portfolio |-> parseNumber(values[3]),
     result    |-> parseNumber(values[4]),
     currency  |-> parseCurrency(values[5])]

\* values.length >= 5
SumEnoughForSummary(values) == Len(values) >= 5

\* a faulty variant: a totals line is asked for as many fields as a summary
SumEnoughForTotalsOff(values) == Len(values) >= 5

\* values.length >= 4
SumEnoughForTotals(values) == Len(values) >= 4

\* the locals of parseSummaryCSV before its loop; pushedAt and totalsAt
\* record the lines (by index i) that were parsed into an AccountSummary
\* and into the combined totals
SumStart(ls) ==
    [inAccountSummaries |-> FALSE,
     inCombinedTotals   |-> FALSE,
     accountSummaries   |-> <<>>,
     totalFreeFunds     |-> 0,
     totalPortfolio     |-> 0,
     totalResult        |-> 0,
     currency           |-> "GBP",
     generatedDate      |-> GeneratedDateOf(ls),
     pushedAt           |-> {},
     totalsAt           |-> {},
     threw              |-> FALSE]

\* a faulty variant: a COMBINED TOTALS line falls through to the data ifs
SumStepMarkerAsData(st, raw, i) ==
    LET l      == Trim(raw)
        values == parseCSVLine(l)
        isCT   == ~Includes(l, MarkerAS) /\ Includes(l, MarkerCT)
        inAS   == IF isCT THEN FALSE ELSE st.inAccountSummaries
        inCT   == isCT \/ st.inCombinedTotals
        pushes == /\ inAS /\ l # ""
                  /\ ~Includes(l, HeaderAS)
                  /\ SumEnoughForSummary(values)
        sets   == /\ inCT /\ l # ""
                  /\ ~Includes(l, HeaderCT)
                  /\ SumEnoughForTotals(values)
    IN  IF Includes(l, MarkerAS)
        THEN [st EXCEPT !.inAccountSummaries = TRUE]
        ELSE IF (pushes /\ Len(values) < 5) \/ (sets /\ Len(values) < 4)
        THEN [st EXCEPT !.threw = TRUE]
        ELSE [st EXCEPT
                 !.inAccountSummaries = inAS,
                 !.inCombinedTotals = inCT,
                 !.accountSummaries =
                     IF pushes THEN Append(@, SummaryOf(values)) ELSE @,
                 !.pushedAt = IF pushes THEN @ \cup {i} ELSE @,
                 !.totalFreeFunds =
                     IF sets THEN parseNumber(values[1]) ELSE @,
                 !.totalPortfolio =
                     IF sets THEN parseNumber(values[2]) ELSE @,
                 !.totalResult =
                     IF sets THEN parseNumber(values[3]) ELSE @,
                 !.currency =
                     IF sets THEN parseCurrency(values[4]) ELSE @,
                 !.totalsAt = IF sets THEN @ \cup {i} ELSE @]

\* one turn of the loop, on line i (raw)
SumStep(st, raw, i) ==
    LET l      == Trim(raw)
        values == parseCSVLine(l)
        pushes == /\ st.inAccountSummaries /\ l # ""
                  /\ ~Includes(l, HeaderAS)
                  /\ SumEnoughForSummary(values)
        sets   == /\ st.inCombinedTotals /\ l # ""
                  /\ ~Includes(l, HeaderCT)
                  /\ SumEnoughForTotals(values)
    IN  IF Includes(l, MarkerAS)
        THEN [st EXCEPT !.inAccountSummaries = TRUE]
        ELSE IF Includes(l, MarkerCT)
        THEN [st EXCEPT !.inAccountSummaries = FALSE,
                        !.inCombinedTotals = TRUE]
        ELSE IF (pushes /\ Len(values) < 5) \/ (sets /\ Len(values) < 4)
        THEN [st EXCEPT !.threw = TRUE]
        ELSE [st EXCEPT
                 !.accountSummaries =
                     IF pushes THEN Append(@, SummaryOf(values)) ELSE @,
                 !.pushedAt = IF pushes THEN @ \cup {i} ELSE @,
                 !.totalFreeFunds =
                     IF sets THEN parseNumber(values[1]) ELSE @,
                 !.totalPortfolio =
                     IF sets THEN parseNumber(values[2]) ELSE @,
                 !.totalResult =
                     IF sets THEN parseNumber(values[3]) ELSE @,
                 !.currency =
                     IF sets THEN parseCurrency(values[4]) ELSE @,
                 !.totalsAt = IF sets THEN @ \cup {i} ELSE @]

RECURSIVE SumLoop(_, _, _)
SumLoop(st, ls, k) ==
    IF k >= Len(ls) \/ st.threw THEN st
    ELSE SumLoop(SumStep(st, ls[k + 1], k), ls, k + 1)

\* the scan of the lines ls
SumScan(ls) == SumLoop(SumStart(ls), ls, 0)

\* what the function returns
SumReturned(st) ==
    [accountSummaries |-> st.accountSummaries,
     totalFreeFunds   |-> st.totalFreeFunds,
     totalPortfolio   |-> st.totalPortfolio,
     totalResult      |-> st.totalResult,
     currency         |-> st.currency,
     generatedDate    |-> st.generatedDate]

\* the whole function
parseSummaryCSV(csvContent) ==
    SumReturned(SumScan(SplitLines(Trim(csvContent))))

SumState ==
    [inAccountSummaries |-> inAccountSummaries,
     inCombinedTotals   |-> inCombinedTotals,
     accountSummaries   |-> accountSummaries,
     totalFreeFunds     |-> totalFreeFunds,
     totalPortfolio     |-> totalPortfolio,
     totalResult        |-> totalResult,
     currency           |-> currency,
     generatedDate      |-> generatedDate,
     pushedAt           |-> pushedAt,
     totalsAt           |-> totalsAt,
     threw              |-> sumPc = "threw"]

SumAssign(st) ==
    /\ inAccountSummaries' = st.inAccountSummaries
    /\ inCombinedTotals' = st.inCombinedTotals
    /\ accountSummaries' = st.accountSummaries
    /\ totalFreeFunds' = st.totalFreeFunds
    /\ totalPortfolio' = st.totalPortfolio
    /\ totalResult' = st.totalResult
    /\ currency' = st.currency
    /\ generatedDate' = st.generatedDate
    /\ pushedAt' = st.pushedAt
    /\ totalsAt' = st.totalsAt

SumIdle ==
    /\ sumContent = "" /\ sumLines = <<>> /\ sumI = 0
    /\ inAccountSummaries = FALSE /\ inCombinedTotals = FALSE
    /\ accountSummaries = <<>>
    /\ totalFreeFunds = 0 /\ totalPortfolio = 0 /\ totalResult = 0
    /\ currency = "GBP" /\ generatedDate = ""
    /\ pushedAt = {} /\ totalsAt = {}
    /\ sumPc = "idle"

SumInit ==
    /\ sumContent \in SumDocuments
    /\ sumLines = <<>> /\ sumI = 0
    /\ inAccountSummaries = FALSE /\ inCombinedTotals = FALSE
    /\ accountSummaries = <<>>
    /\ totalFreeFunds = 0 /\ totalPortfolio = 0 /\ totalResult = 0
    /\ currency = "GBP" /\ generatedDate = ""
    /\ pushedAt = {} /\ totalsAt = {}
    /\ sumPc = "call"

\* a call on a document of the date pool
SumDateInit ==
    /\ sumContent \in DateDocuments
    /\ sumLines = <<>> /\ sumI = 0
    /\ inAccountSummaries = FALSE /\ inCombinedTotals = FALSE
    /\ accountSummaries = <<>>
    /\ totalFreeFunds = 0 /\ totalPortfolio = 0 /\ totalResult = 0
    /\ currency = "GBP" /\ generatedDate = ""
    /\ pushedAt = {} /\ totalsAt = {}
    /\ sumPc = "call"

\* the statements before the loop
SumBegin ==
    /\ sumPc = "call"
    /\ sumLines' = SplitLines(Trim(sumContent))
    /\ SumAssign(SumStart(SplitLines(Trim(sumContent))))
    /\ sumI' = 0
    /\ sumPc' = "loop"
    /\ UNCHANGED sumContent
    /\ UNCHANGED <<csvVars, posVars, appVars, viewVars, tokVars, sortVars>>

SumTurn ==
    LET st == SumStep(SumState, sumLines[sumI + 1], sumI)
    IN  /\ SumAssign(st)
        /\ sumPc' = IF st.threw THEN "threw" ELSE "loop"
        /\ sumI' = sumI + 1
        /\ UNCHANGED <<sumContent, sumLines>>
        /\ UNCHANGED <<csvVars, posVars, appVars, viewVars, tokVars, sortVars>>

\* if (line.includes('ACCOUNT SUMMARIES')) { ...; continue }
SumMarkerAS ==
    /\ sumPc = "loop" /\ sumI < Len(sumLines)
    /\ Includes(Trim(sumLines[sumI + 1]), MarkerAS)
    /\ SumTurn

\* if (line.includes('COMBINED TOTALS')) { ...; continue }
SumMarkerCT ==
    /\ sumPc = "loop" /\ sumI < Len(sumLines)
    /\ ~Includes(Trim(sumLines[sumI + 1]), MarkerAS)
    /\ Includes(Trim(sumLines[sumI + 1]), MarkerCT)
    /\ SumTurn

\* the two data ifs, on a line that holds no marker
SumData ==
    /\ sumPc = "loop" /\ sumI < Len(sumLines)
    /\ ~Includes(Trim(sumLines[sumI + 1]), MarkerAS)
    /\ ~Includes(Trim(sumLines[sumI + 1]), MarkerCT)
    /\ SumTurn

\* return {...}
SumReturn ==
    /\ sumPc = "loop" /\ sumI >= Len(sumLines)
    /\ sumPc' = "done"
    /\ UNCHANGED <<sumContent, sumLines, sumI, inAccountSummaries,
                   inCombinedTotals, accountSummaries, totalFreeFunds,
                   totalPortfolio, totalResult, currency, generatedDate,
                   pushedAt, totalsAt>>
    /\ UNCHANGED <<csvVars, posVars, appVars, viewVars, tokVars, sortVars>>


(***************************************************************************)
(* parseBuyHistoryCSV and parseSellHistoryCSV.  App imports them from      *)
(* utils/csvParser; they follow the positions parse: one header row, then  *)
(* one record a row, fixed column order, short rows dropped.  The last     *)
(* four columns of a buy row pass the text N/A through unparsed.           *)
(***************************************************************************)
NumberOrNA(value) ==
    IF parseCurrency(value) = "N/A" THEN "N/A" ELSE parseNumber(value)

BuyOf(values) ==
    [date               |-> values[1],
     ticker             |-> values[2],
     name               |-> values[3],
     quantity           |-> parseNumber(values[4]),
     price              |-> parseNumber(values[5]),
     totalValue         |-> parseNumber(values[6]),
     fees               |-> values[7],
     currentPrice       |-> NumberOrNA(values[8]),
     currentValue       |-> NumberOrNA(values[9]),
     performance        |-> NumberOrNA(values[10]),
     performancePercent |-> NumberOrNA(values[11])]

SellOf(values) ==
    [date       |-> values[1],
     ticker     |-> values[2],
     name       |-> values[3],
     quantity   |-> parseNumber(values[4]),
     price      |-> parseNumber(values[5]),
     totalValue |-> parseNumber(values[6]),
     fees       |-> values[7]]

RECURSIVE BuyLoop(_, _, _)
BuyLoop(acc, ls, k) ==
    IF k >= Len(ls) THEN acc
    ELSE LET values == parseCSVLine(Trim(ls[k + 1]))
         IN  BuyLoop(IF Len(values) < 11 THEN acc
                     ELSE Append(acc, BuyOf(values)), ls, k + 1)

parseBuyHistoryCSV(csvContent) ==
    BuyLoop(<<>>, SplitLines(Trim(csvContent)), 1)

RECURSIVE SellLoop(_, _, _)
SellLoop(acc, ls, k) ==
    IF k >= Len(ls) THEN acc
    ELSE LET values == parseCSVLine(Trim(ls[k + 1]))
         IN  SellLoop(IF Len(values) < 7 THEN acc
                      ELSE Append(acc, SellOf(values)), ls, k + 1)

parseSellHistoryCSV(csvContent) ==
    SellLoop(<<>>, SplitLines(Trim(csvContent)), 1)

(***************************************************************************)
(* App.loadData: the effect that loads the four documents.                 *)
(***************************************************************************)
Docs == {"positions", "summary", "buy", "sell"}

\* the bodies the server may answer with
PositionsTexts == {JoinLines(<<PosHeader, PosRowA, PosRowB>>), PosHeader}
SummaryTexts ==
    {JoinLines(<<SumDateLine, "", MarkerAS, SumRowA, MarkerCT, SumTotalsA>>),
     ""}
BuyTexts ==
    {JoinLines(<<"Date,Ticker,Name,Quantity,Price,Total,Fees,Current Price,Current Value,Performance,Performance %",
                 "2025-01-02T10:00:00Z,MSFT_US_EQ,Microsoft,1,400.5,400.5,N/A,410,410,9.5,2.37",
                 "2025-01-03T10:00:00Z,OLD_EQ,Old Co,2,10,20,N/A,N/A,N/A,N/A,N/A">>)}
SellTexts ==
    {JoinLines(<<"Date,Ticker,Name,Quantity,Price,Total,Fees",
                 "2025-02-02T10:00:00Z,MSFT_US_EQ,Microsoft,1,420,420,N/A">>)}
TextsOf(d) ==
    IF d = "positions" THEN PositionsTexts
    ELSE IF d = "summary" THEN SummaryTexts
    ELSE IF d = "buy" THEN BuyTexts
    ELSE SellTexts

\* Response.ok
Ok(d) == responses[d] = "ok"

\* a faulty variant: the load goes on unless both mandatory responses failed
MandatoryFailedBoth == ~Ok("positions") /\ ~Ok("summary")

\* !positionsResponse.ok || !summaryResponse.ok
MandatoryFailed == ~Ok("positions") \/ ~Ok("summary")

\* x || fallback on a string
OrString(x, fallback) == IF x = "" THEN fallback ELSE x

\* the object given to setPortfolioData
SnapshotOf(ps, sd) ==
    [positions        |-> ps,
     accountSummaries |-> sd.accountSummaries,
     totalFreeFunds   |-> sd.totalFreeFunds,
     totalPortfolio   |-> sd.totalPortfolio,
     totalResult      |-> sd.totalResult,
     currency         |-> OrString(sd.currency, "GBP"),
     generatedDate    |-> sd.generatedDate]

NoSummary == parseSummaryCSV("")

AppIdle ==
    /\ responses = [d \in Docs |-> "unsent"]
    /\ bodies = [d \in Docs |-> "unread"]
    /\ texts = [d \in Docs |-> ""]
    /\ loadedPositions = <<>> /\ summaryData = NoSummary /\ thrown = ""
    /\ portfolioData = <<>> /\ buyHistory = <<>> /\ sellHistory = <<>>
    /\ loading = TRUE /\ error = "" /\ errorsRecorded = 0 /\ parsed = {}
    /\ appPc = "idle"

\* the state after the first render: useState's initial values; null is
\* held as the empty tuple (portfolioData) and the empty string (error)
AppInit ==
    /\ responses = [d \in Docs |-> "unsent"]
    /\ bodies = [d \in Docs |-> "unread"]
    /\ texts = [d \in Docs |-> ""]
    /\ loadedPositions = <<>> /\ summaryData = NoSummary /\ thrown = ""
    /\ portfolioData = <<>> /\ buyHistory = <<>> /\ sellHistory = <<>>
    /\ loading = TRUE /\ error = "" /\ errorsRecorded = 0 /\ parsed = {}
    /\ appPc = "effect"

AppFrame == UNCHANGED <<csvVars, posVars, sumVars, viewVars, tokVars, sortVars>>

\* Promise.all([fetch(...), fetch(...), fetch(...), fetch(...)])
IssueRequests ==
    /\ appPc = "effect"
    /\ responses' = [d \in Docs |-> "pending"]
    /\ appPc' = "awaitAll"
    /\ UNCHANGED <<bodies, texts, loadedPositions, summaryData, thrown,
                   portfolioData, buyHistory, sellHistory, loading, error,
                   errorsRecorded, parsed>>
    /\ AppFrame

\* a request settles: a response that is ok, one that is not, or a rejection
Settle ==
    /\ \E d \in Docs, outcome \in {"ok", "notok", "rejected"} :
          /\ responses[d] = "pending"
          /\ responses' = [responses EXCEPT ![d] = outcome]
    /\ UNCHANGED <<bodies, texts, loadedPositions, summaryData, thrown,
                   portfolioData, buyHistory, sellHistory, loading, error,
                   errorsRecorded, parsed, appPc>>
    /\ AppFrame

\* a faulty variant: only the two mandatory requests are awaited
AllResolvedMandatoryOnly ==
    /\ appPc = "awaitAll"
    /\ \A d \in {"positions", "summary"} : responses[d] \in {"ok", "notok"}
    /\ appPc' = "check"
    /\ UNCHANGED <<responses, bodies, texts, loadedPositions, summaryData,
                   thrown, portfolioData, buyHistory, sellHistory, loading,
                   error, errorsRecorded, parsed>>
    /\ AppFrame

\* Promise.all resolves once the four requests have resolved
AllResolved ==
    /\ appPc = "awaitAll"
    /\ \A d \in Docs : responses[d] \in {"ok", "notok"}
    /\ appPc' = "check"
    /\ UNCHANGED <<responses, bodies, texts, loadedPositions, summaryData,
                   thrown, portfolioData, buyHistory, sellHistory, loading,
                   error, errorsRecorded, parsed>>
    /\ AppFrame

\* Promise.all rejects as soon as one request rejects: control goes to catch
AnyRejected ==
    /\ appPc = "awaitAll"
    /\ \E d \in Docs : responses[d] = "rejected"
    /\ thrown' = "Failed to fetch"
    /\ appPc' = "catch"
    /\ UNCHANGED <<responses, bodies, texts, loadedPositions, summaryData,
                   portfolioData, buyHistory, sellHistory, loading, error,
                   errorsRecorded, parsed>>
    /\ AppFrame

\* if (!positionsResponse.ok || !summaryResponse.ok) throw new Error(...)
CheckMandatory ==
    /\ appPc = "check"
    /\ IF MandatoryFailed
       THEN thrown' = "Failed to load portfolio CSV files" /\ appPc' = "catch"
       ELSE thrown' = thrown /\ appPc' = "positionsText"
    /\ UNCHANGED <<responses, bodies, texts, loadedPositions, summaryData,
                   portfolioData, buyHistory, sellHistory, loading, error,
                   errorsRecorded, parsed>>
    /\ AppFrame

\* await response.text() of document d resolves with a body
ReadBody(d, next) ==
    /\ \E t \in TextsOf(d) : texts' = [texts EXCEPT ![d] = t]
    /\ bodies' = [bodies EXCEPT ![d] = "read"]
    /\ appPc' = next
    /\ thrown' = thrown

\* await response.text() of document d rejects
FailBody(d) ==
    /\ bodies' = [bodies EXCEPT ![d] = "failed"]
    /\ texts' = texts
    /\ thrown' = "Failed to read body"
    /\ appPc' = "catch"

\* const positionsText = await positionsResponse.text()
PositionsText ==
    /\ appPc = "positionsText"
    /\ ReadBody("positions", "summaryText") \/ FailBody("positions")
    /\ UNCHANGED <<responses, loadedPositions, summaryData, portfolioData,
                   buyHistory, sellHistory, loading, error, errorsRecorded,
                   parsed>>
    /\ AppFrame

\* const summaryText = await summaryResponse.text()
SummaryText ==
    /\ appPc = "summaryText"
    /\ ReadBody("summary", "parse") \/ FailBody("summary")
    /\ UNCHANGED <<responses, loadedPositions, summaryData, portfolioData,
                   buyHistory, sellHistory, loading, error, errorsRecorded,
                   parsed>>
    /\ AppFrame

\* parsePositionsCSV(positionsText); parseSummaryCSV(summaryText)
ParsePortfolio ==
    /\ appPc = "parse"
    /\ loadedPositions' = parsePositionsCSV(texts["positions"]).positions
    /\ summaryData' = parseSummaryCSV(texts["summary"])
    /\ parsed' = parsed \cup {"parsePositionsCSV", "parseSummaryCSV"}
    /\ appPc' = "buy"
    /\ UNCHANGED <<responses, bodies, texts, thrown, portfolioData,
                   buyHistory, sellHistory, loading, error, errorsRecorded>>
    /\ AppFrame

\* if (buyHistoryResponse.ok) { ...text(); parseBuyHistoryCSV; setBuyHistory }
BuyHistoryStep ==
    /\ appPc = "buy"
    /\ IF Ok("buy")
       THEN \/ /\ ReadBody("buy", "sell")
               /\ buyHistory' = parseBuyHistoryCSV(texts'["buy"])
               /\ parsed' = parsed \cup {"parseBuyHistoryCSV"}
            \/ /\ FailBody("buy")
               /\ UNCHANGED <<buyHistory, parsed>>
       ELSE /\ appPc' = "sell"
            /\ UNCHANGED <<bodies, texts, thrown, buyHistory, parsed>>
    /\ UNCHANGED <<responses, loadedPositions, summaryData, portfolioData,
                   sellHistory, loading, error, errorsRecorded>>
    /\ AppFrame

\* if (sellHistoryResponse.ok) { ...text(); parseSellHistoryCSV; setSellHistory }
SellHistoryStep ==
    /\ appPc = "sell"
    /\ IF Ok("sell")
       THEN \/ /\ ReadBody("sell", "combine")
               /\ sellHistory' = parseSellHistoryCSV(texts'["sell"])
               /\ parsed' = parsed \cup {"parseSellHistoryCSV"}
            \/ /\ FailBody("sell")
               /\ UNCHANGED <<sellHistory, parsed>>
       ELSE /\ appPc' = "combine"
            /\ UNCHANGED <<bodies, texts, thrown, sellHistory, parsed>>
    /\ UNCHANGED <<responses, loadedPositions, summaryData, portfolioData,
                   buyHistory, loading, error, errorsRecorded>>
    /\ AppFrame

\* setPortfolioData({...})
Combine ==
    /\ appPc = "combine"
    /\ portfolioData' = <<SnapshotOf(loadedPositions, summaryData)>>
    /\ appPc' = "finally"
    /\ UNCHANGED <<responses, bodies, texts, loadedPositions, summaryData,
                   thrown, buyHistory, sellHistory, loading, error,
                   errorsRecorded, parsed>>
    /\ AppFrame

\* catch (err) { setError(err.message) }
Catch ==
    /\ appPc = "catch"
    /\ error' = thrown
    /\ errorsRecorded' = errorsRecorded + 1
    /\ appPc' = "finally"
    /\ UNCHANGED <<responses, bodies, texts, loadedPositions, summaryData,
                   thrown, portfolioData, buyHistory, sellHistory, loading,
                   parsed>>
    /\ AppFrame

\* a faulty variant: loading is cleared at the end of the try block only
FinallyAfterSuccessOnly ==
    /\ appPc = "finally"
    /\ loading' = IF error = "" THEN FALSE ELSE loading
    /\ appPc' = "done"
    /\ UNCHANGED <<responses, bodies, texts, loadedPositions, summaryData,
                   thrown, portfolioData, buyHistory, sellHistory, error,
                   errorsRecorded, parsed>>
    /\ AppFrame

\* finally { setLoading(false) }
Finally ==
    /\ appPc = "finally"
    /\ loading' = FALSE
    /\ appPc' = "done"
    /\ UNCHANGED <<responses, bodies, texts, loadedPositions, summaryData,
                   thrown, portfolioData, buyHistory, sellHistory, error,
                   errorsRecorded, parsed>>
    /\ AppFrame

(***************************************************************************)
(* The view model: values of record fields, the comparator of the tables,  *)
(* Array.prototype.sort and the account filter.                            *)
(***************************************************************************)
\* a value as typeof sees it: a number or a string
NumberValue(n) == [kind |-> "number", num |-> n, text |-> ""]
StringValue(t) == [kind |-> "string", num |-> 0, text |-> t]

Tables == {"positions", "buy", "sell"}

\* the fields of Position, BuyHistory and SellHistory declared number
NumberKeys(table) ==
    IF table = "positions"
    THEN {"quantity", "priceOwned", "priceOwnedGBP", "currentPrice",
          "currentPriceGBP", "valueGBP", "changeGBP", "changePercent"}
    ELSE {"quantity", "price", "totalValue"}

\* the fields declared string
StringKeys(table) ==
    IF table = "positions"
    THEN {"accountType", "name", "ticker", "priceOwnedCurrency",
          "currentPriceCurrency"}
    ELSE {"date", "ticker", "name", "fees"}

\* the fields of BuyHistory declared string | number
MixedKeys(table) ==
    IF table = "buy"
    THEN {"currentPrice", "currentValue", "performance", "performancePercent"}
    ELSE {}

\* the fields whose header calls handleSort
SortableKeys(table) ==
    IF table = "positions"
    THEN {"accountType", "name", "quantity", "valueGBP", "priceOwnedGBP",
          "currentPriceGBP", "changeGBP", "changePercent"}
    ELSE IF table = "buy"
    THEN {"date", "name", "quantity", "price", "totalValue", "currentPrice",
          "currentValue", "performance"}
    ELSE {"date", "name", "quantity", "price", "totalValue"}

\* a[sortKey]
FieldValue(table, rec, key) ==
    IF key \in NumberKeys(table) THEN NumberValue(rec[key])
    ELSE IF key \in StringKeys(table) THEN StringValue(rec[key])
    ELSE rec[key]

UpperCase == "ABCDEFGHIJKLMNOPQRSTUVWXYZ"
LowerCase == "abcdefghijklmnopqrstuvwxyz"

IsUpper(c) == Len(c) = 1 /\ Occurrences(UpperCase, c) # {}

ToLower(c) ==
    IF IsUpper(c) THEN Char(LowerCase, SetMin(Occurrences(UpperCase, c)))
    ELSE c

\* the characters in the order the collation of localeCompare gives them
\* at the first level: white space, punctuation, symbols, digits, letters
CollationOrder == " _-,;:!?.'\"()@*/&#%+<=>$0123456789abcdefghijklmnopqrstuvwxyz"

PrimaryWeight(c) ==
    LET at == Occurrences(CollationOrder, ToLower(c))
    IN  IF at = {} THEN Len(CollationOrder) + 1 ELSE SetMin(at)

\* the first place from k on where the two strings differ by f, 0 when none
RECURSIVE FirstDifference(_, _, _, _)
FirstDifference(a, b, k, byCase) ==
    IF k > Len(a) \/ k > Len(b) THEN 0
    ELSE LET differ == IF byCase THEN IsUpper(Char(a, k)) # IsUpper(Char(b, k))
                       ELSE PrimaryWeight(Char(a, k)) # PrimaryWeight(Char(b, k))
         IN  IF differ THEN k ELSE FirstDifference(a, b, k + 1, byCase)

\* the order of a and b that first differ at p by letter and at c by case
LocaleCompareAt(a, b, p, c) ==
    IF p # 0
    THEN (IF PrimaryWeight(Char(a, p)) < PrimaryWeight(Char(b, p))
          THEN 0 - 1 ELSE 1)
    ELSE IF Len(a) # Len(b) THEN (IF Len(a) < Len(b) THEN 0 - 1 ELSE 1)
    ELSE IF c # 0 THEN (IF IsUpper(Char(b, c)) THEN 0 - 1 ELSE 1)
    ELSE 0

\* a.localeCompare(b): letters and digits first, then lower case before
\* upper case at the first place where only the case differs
LocaleCompare(a, b) ==
    LocaleCompareAt(a, b, FirstDifference(a, b, 1, FALSE),
                    FirstDifference(a, b, 1, TRUE))

\* a faulty variant: the direction is left out of the numeric difference
CompareAscendingOnly(aVal, bVal, direction) ==
    IF aVal.kind = "number" /\ bVal.kind = "number"
    THEN aVal.num - bVal.num
    ELSE IF aVal.kind = "string" /\ bVal.kind = "string"
    THEN (IF direction = "asc" THEN LocaleCompare(aVal.text, bVal.text)
          ELSE LocaleCompare(bVal.text, aVal.text))
    ELSE 0

\* the comparator given to sort, on the two field values
Compare(aVal, bVal, direction) ==
    IF aVal.kind = "number" /\ bVal.kind = "number"
    THEN (IF direction = "asc" THEN aVal.num - bVal.num
          ELSE bVal.num - aVal.num)
    ELSE IF aVal.kind = "string" /\ bVal.kind = "string"
    THEN (IF direction = "asc" THEN LocaleCompare(aVal.text, bVal.text)
          ELSE LocaleCompare(bVal.text, aVal.text))
    ELSE 0

\* (a, b) => ... of the table on field key
Comparator(table, key, direction, a, b) ==
    Compare(FieldValue(table, a, key), FieldValue(table, b, key), direction)

Reverse(s) == [k \in 1..Len(s) |-> s[Len(s) + 1 - k]]

InsertAt(s, k, x) == SubSeq(s, 1, k) \o <<x>> \o SubSeq(s, k + 1, Len(s))

\* Array.prototype.sort on fewer than 64 elements: the first run is found
\* (a strictly descending one is reversed) and the other elements are put
\* in by binary insertion.  The length of the run that starts s:
RECURSIVE RunLength(_, _, _, _, _, _)
RunLength(table, key, direction, s, idx, descending) ==
    IF idx > Len(s) THEN Len(s)
    ELSE LET order == Comparator(table, key, direction, s[idx], s[idx - 1])
         IN  IF (descending /\ order >= 0) \/ (~descending /\ order < 0)
             THEN idx - 1
             ELSE RunLength(table, key, direction, s, idx + 1, descending)

\* where the pivot goes among sorted[left + 1 .. right]
RECURSIVE BinarySearch(_, _, _, _, _, _, _)
BinarySearch(table, key, direction, sorted, pivot, left, right) ==
    IF left >= right THEN left
    ELSE LET mid == left + ((right - left) \div 2)
             order == Comparator(table, key, direction, pivot, sorted[mid + 1])
         IN  IF order < 0
             THEN BinarySearch(table, key, direction, sorted, pivot, left, mid)
             ELSE BinarySearch(table, key, direction, sorted, pivot,
                               mid + 1, right)

RECURSIVE BinaryInsertionSort(_, _, _, _, _)
BinaryInsertionSort(table, key, direction, sorted, rest) ==
    IF rest = <<>> THEN sorted
    ELSE LET at == BinarySearch(table, key, direction, sorted, Head(rest),
                                0, Len(sorted))
         IN  BinaryInsertionSort(table, key, direction,
                                 InsertAt(sorted, at, Head(rest)), Tail(rest))

\* a faulty variant: a run of ties counts as descending and is reversed
RECURSIVE RunLengthLoose(_, _, _, _, _, _)
RunLengthLoose(table, key, direction, s, idx, descending) ==
    IF idx > Len(s) THEN Len(s)
    ELSE LET order == Comparator(table, key, direction, s[idx], s[idx - 1])
         IN  IF (descending /\ order > 0) \/ (~descending /\ order < 0)
             THEN idx - 1
             ELSE RunLengthLoose(table, key, direction, s, idx + 1,
                                 descending)

\* the first run of length run put in order, then the other elements
SortFromRun(table, key, direction, s, descending, run) ==
    BinaryInsertionSort(table, key, direction,
                        IF descending THEN Reverse(SubSeq(s, 1, run))
                        ELSE SubSeq(s, 1, run),
                        SubSeq(s, run + 1, Len(s)))

\* the sort of two elements or more, whose first run is descending or not
SortWithRun(table, key, direction, s, descending) ==
    SortFromRun(table, key, direction, s, descending,
                RunLength(table, key, direction, s, 3, descending))

SortWithRunLoose(table, key, direction, s, descending) ==
    SortFromRun(table, key, direction, s, descending,
                RunLengthLoose(table, key, direction, s, 3, descending))

ArraySortLooseRun(table, key, direction, s) ==
    IF Len(s) < 2 THEN s
    ELSE SortWithRunLoose(table, key, direction, s,
             Comparator(table, key, direction, s[2], s[1]) <= 0)

\* array.sort(comparator) of the table on field key
ArraySort(table, key, direction, s) ==
    IF Len(s) < 2 THEN s
    ELSE SortWithRun(table, key, direction, s,
             Comparator(table, key, direction, s[2], s[1]) < 0)

\* a faulty variant: the array is sorted in place
SpreadSortInPlace(table, key, direction, s) ==
    [source |-> ArraySort(table, key, direction, s),
     sorted |-> ArraySort(table, key, direction, s)]

\* [...s].sort(comparator): the array given, as the call leaves it, and the
\* array returned
SpreadSort(table, key, direction, s) ==
    [source |-> s, sorted |-> ArraySort(table, key, direction, s)]

\* a faulty variant: any selector but All keeps the ISA positions
AccountMatchesISAOnly(accountFilter, p) == p.accountType = "ISA"

\* the predicate given to positions.filter
AccountMatches(accountFilter, p) ==
    IF accountFilter = "ISA" THEN p.accountType = "ISA"
    ELSE p.accountType = "Trading"

\* filteredPositions of PortfolioTable
filteredPositions(ps, accountFilter) ==
    IF accountFilter # "" /\ accountFilter # "All"
    THEN LET Test(p) == AccountMatches(accountFilter, p)
         IN  SelectSeq(ps, Test)
    ELSE ps

\* sortedPositions of PortfolioTable and sortedHistory of the history
\* tables, with the array they are computed from as the call leaves it;
\* the null key is held as the empty string
sortedRows(table, s, key, direction) ==
    IF key = "" THEN [source |-> s, sorted |-> s]
    ELSE SpreadSort(table, key, direction, s)

(***************************************************************************)
(* Formatting, and the cells of a row of the buy-history table.            *)
(***************************************************************************)
\* the characters U+00A3 (pound sign) and U+221E (infinity), in ASCII
PoundSign == "{pound}"
InfinitySign == "{infinity}"

\* the decimal digits of a natural number
RECURSIVE DigitsOf(_)
DigitsOf(n) ==
    IF n < 10 THEN Char(Digits, n + 1)
    ELSE DigitsOf(n \div 10) \o Char(Digits, (n % 10) + 1)

\* digits with a comma before every group of three from the right
RECURSIVE Grouped(_)
Grouped(ds) ==
    IF Len(ds) <= 3 THEN ds
    ELSE Grouped(SubSeq(ds, 1, Len(ds) - 3)) \o ","
            \o SubSeq(ds, Len(ds) - 2, Len(ds))

\* n written with at least width digits
RECURSIVE Padded(_, _)
Padded(ds, width) == IF Len(ds) >= width THEN ds ELSE Padded("0" \o ds, width)

\* |n| in units of 10^-decimals, halves rounded away from zero
RoundedTo(n, decimals) ==
    LET a == IF n < 0 THEN 0 - n ELSE n
    IN  (a \div Unit) * Pow10(decimals)
            + (((a % Unit) * Pow10(decimals) + (Unit \div 2)) \div Unit)

\* a finite number in the en-GB locale with exactly decimals decimal places
GroupedDecimal(n, decimals) ==
    LET q == RoundedTo(n, decimals)
        whole == Grouped(DigitsOf(q \div Pow10(decimals)))
    IN  IF decimals = 0 THEN whole
        ELSE whole \o "." \o Padded(DigitsOf(q % Pow10(decimals)), decimals)

\* the text of a number (kind: number, NaN or Infinity) without its sign
LocaleDigits(x, decimals) ==
    IF x.kind = "NaN" THEN "NaN"
    ELSE IF x.kind = "Infinity" THEN InfinitySign
    ELSE GroupedDecimal(x.value, decimals)

\* value.toLocaleString('en-GB', {minimumFractionDigits: decimals,
\* maximumFractionDigits: decimals})
formatNumber(x, decimals) ==
    (IF x.kind # "NaN" /\ x.value < 0 THEN "-" ELSE "") \o
        LocaleDigits(x, decimals)

\* new Intl.NumberFormat('en-GB', {style: 'currency', currency: 'GBP',
\* minimumFractionDigits: 2}).format(x)
IntlCurrencyGBP(x) ==
    (IF x.kind # "NaN" /\ x.value < 0 THEN "-" ELSE "") \o PoundSign \o
        LocaleDigits(x, 2)

\* typeof value === 'string' ? parseFloat(value) : value
NumericOf(value) ==
    IF value.kind = "string" THEN parseFloat(value.text)
    ELSE [kind |-> "number", value |-> value.num]

\* a faulty variant: the sentinel is parsed like any other text
formatCurrencyCoerced(value) == IntlCurrencyGBP(NumericOf(value))

\* formatCurrency of BuyHistoryTable
formatCurrency(value) ==
    IF value = StringValue("N/A") THEN "N/A"
    ELSE IntlCurrencyGBP(NumericOf(value))

\* getPerformanceValue of BuyHistoryTable
getPerformanceValue(perf) ==
    IF perf = StringValue("N/A") THEN [kind |-> "null", value |-> 0]
    ELSE NumericOf(perf)

\* a number or a string as React writes it into the page; a number of the
\* model is written with the decimals it needs
RenderedText(value) ==
    IF value.kind = "string" THEN value.text
    ELSE LET n == value.num
             a == IF n < 0 THEN 0 - n ELSE n
             fraction == Padded(DigitsOf(a % Unit), FracDigits)
             last == {k \in 1..Len(fraction) : Char(fraction, k) # "0"}
         IN  (IF n < 0 THEN "-" ELSE "") \o DigitsOf(a \div Unit) \o
             (IF last = {} THEN ""
              ELSE "." \o SubSeq(fraction, 1, SetMax(last)))

\* the last three cells of a row of the buy-history table, and the class
\* of the performance cell
BuyRowCells(order) ==
    LET perfValue == getPerformanceValue(order.performance)
        isPositive == perfValue.kind \in {"number", "Infinity"}
                        /\ perfValue.value >= 0
        isNegative == perfValue.kind \in {"number", "Infinity"}
                        /\ perfValue.value < 0
    IN  [currentPrice |->
             IF order.currentPrice = StringValue("N/A") THEN "N/A"
             ELSE PoundSign \o formatNumber(NumericOf(order.currentPrice), 2),
         currentValue |->
             IF order.currentValue = StringValue("N/A") THEN "N/A"
             ELSE formatCurrency(order.currentValue),
         performance |->
             IF order.performance = StringValue("N/A") THEN "N/A"
             ELSE (IF isPositive THEN "+" ELSE "") \o
                  formatCurrency(order.performance),
         performancePercent |->
             IF order.performance = StringValue("N/A") THEN ""
             ELSE RenderedText(order.performancePercent),
         performanceClass |->
             IF order.performance = StringValue("N/A")
             THEN "text-portfolio-text-dim"
             ELSE IF isPositive THEN "text-portfolio-green"
             ELSE IF isNegative THEN "text-portfolio-red"
             ELSE "text-portfolio-text-dim"]

(***************************************************************************)
(* The rendered application: App's tabs and account filter, and the table  *)
(* mounted under the active tab with its sort state.                       *)
(***************************************************************************)
\* the same value in the same field as PosRowA, another name and account
PosRowTie == "ISA,amazon,AMZN_US_EQ,0.138,USD,USD,227.49,179.72,235.52,186.06,70.43,-11.48,-3.53"

ViewPositionPool ==
    {PositionOf(parseCSVLine(Trim(r))) :
        r \in {PosRowA, PosRowQuoted, PosRowTie}}

BuyRecord(date, ticker, name, quantity, total, currentPrice, currentValue,
          performance, performancePercent) ==
    [date |-> date, ticker |-> ticker, name |-> name, quantity |-> quantity,
     price |-> (total \div quantity) * Unit, totalValue |-> total,
     fees |-> "N/A",
     currentPrice |-> currentPrice, currentValue |-> currentValue,
     performance |-> performance, performancePercent |-> performancePercent]

NotAvailable == StringValue("N/A")

ViewBuyPool ==
    {BuyRecord("2025-01-02T10:00:00Z", "MSFT_US_EQ", "Microsoft", 2 * Unit,
               800 * Unit, NumberValue(410 * Unit), NumberValue(820 * Unit),
               NumberValue(20 * Unit), StringValue("2.50%")),
     BuyRecord("2025-01-03T10:00:00Z", "OLD_EQ", "Old Co", Unit, 20 * Unit,
               NotAvailable, NotAvailable, NotAvailable, NotAvailable),
     BuyRecord("2025-01-03T10:00:00Z", "AMZN_US_EQ", "amazon", Unit,
               100 * Unit, NumberValue(100 * Unit), NumberValue(100 * Unit),
               NumberValue(0), StringValue("0.00%")),
     BuyRecord("2024-12-24T09:30:00Z", "AAPL_US_EQ", "Apple", 2 * Unit,
               300 * Unit, NumberValue(140 * Unit), StringValue("280.5"),
               NumberValue(0 - 19 * Unit - (Unit \div 2)), StringValue("-6.50%"))}

SellRecord(date, ticker, name, quantity, total) ==
    [date |-> date, ticker |-> ticker, name |-> name, quantity |-> quantity,
     price |-> (total \div quantity) * Unit, totalValue |-> total,
     fees |-> "N/A"]

ViewSellPool ==
    {SellRecord("2025-02-02T10:00:00Z", "MSFT_US_EQ", "Microsoft", Unit,
                420 * Unit),
     SellRecord("2025-02-01T10:00:00Z", "AMZN_US_EQ", "Amazon", Unit,
                190 * Unit),
     SellRecord("2025-02-02T10:00:00Z", "AAPL_US_EQ", "apple", 2 * Unit,
                420 * Unit)}

PoolOf(table) ==
    IF table = "positions" THEN ViewPositionPool
    ELSE IF table = "buy" THEN ViewBuyPool
    ELSE ViewSellPool

\* the records the rendered application is given: two of each pool, with
\* a tie in the default sort field of the histories
ShownPool(table) ==
    IF table = "positions"
    THEN {p \in ViewPositionPool : p.valueGBP < 100 * Unit}
    ELSE IF table = "buy"
    THEN {b \in ViewBuyPool : b.date = "2025-01-03T10:00:00Z"}
    ELSE {r \in ViewSellPool : r.date = "2025-02-02T10:00:00Z"}

Tabs == {"portfolio", "buy-history", "sell-history"}
Accounts == {"All", "Trading", "ISA"}

TabOf(table) ==
    IF table = "positions" THEN "portfolio"
    ELSE IF table = "buy" THEN "buy-history"
    ELSE "sell-history"

\* useState<SortKey>('valueGBP') and useState<SortKey>('date')
DefaultSortKey(table) == IF table = "positions" THEN "valueGBP" ELSE "date"

\* the table is rendered: its tab is the active one and, for a history
\* table, the history is not empty
IsMounted(table, tab, buy, sell) ==
    /\ tab = TabOf(table)
    /\ table = "buy" => Len(buy) > 0
    /\ table = "sell" => Len(sell) > 0

\* the array prop of the table
DataOf(table) ==
    IF table = "positions" THEN viewPositions
    ELSE IF table = "buy" THEN viewBuyHistory
    ELSE viewSellHistory

\* the array the table sorts: filteredPositions for the positions, the
\* prop itself for a history
SortInput(table, account) ==
    IF table = "positions" THEN filteredPositions(viewPositions, account)
    ELSE DataOf(table)

\* the rows the table shows in a state where it is mounted
RowsOf(table) ==
    sortedRows(table, SortInput(table, selectedAccount), sortKey[table],
               sortDirection[table]).sorted

\* the array prop of the table after a render with the given selection:
\* the positions prop is the array sorted when no filter applies, a
\* history prop always is
DataAfterRender(table, account, key, direction) ==
    IF table = "positions" /\ account # "" /\ account # "All"
    THEN DataOf(table)
    ELSE sortedRows(table, DataOf(table), key, direction).source

\* a useMemo cell before the first render of its component
NoMemo == [deps |-> <<>>, value |-> <<>>, ref |-> 0]

\* the array a useMemo returns is a new one, or the positions prop itself
\* (0) when no filter applies; was is the array of the render before
NewArray(was, accountFilter) ==
    IF accountFilter = "" \/ accountFilter = "All" THEN 0
    ELSE IF was = 1 THEN 2 ELSE 1

\* the dependencies of the two cells: [positions, accountFilter] and
\* [filteredPositions, sortKey, sortDirection]; an array is compared by
\* identity, the positions prop being array 0
FilteredDeps(accountFilter) == <<0, accountFilter>>

\* a faulty variant: the direction is left out of the dependencies
SortedDepsNoDirection(filteredRef, key, direction) == <<filteredRef, key>>

SortedDeps(filteredRef, key, direction) == <<filteredRef, key, direction>>

\* useMemo(() => {...}, [positions, accountFilter]) on a render: the cell
\* is kept when the dependencies are those of the render before
UseMemoFiltered(cell, ps, accountFilter) ==
    IF cell.deps = FilteredDeps(accountFilter) THEN cell
    ELSE [deps  |-> FilteredDeps(accountFilter),
          value |-> filteredPositions(ps, accountFilter),
          ref   |-> NewArray(cell.ref, accountFilter)]

\* useMemo(() => {...}, [filteredPositions, sortKey, sortDirection])
UseMemoSorted(cell, filtered, key, direction) ==
    IF cell.deps = SortedDeps(filtered.ref, key, direction) THEN cell
    ELSE [deps  |-> SortedDeps(filtered.ref, key, direction),
          value |-> sortedRows("positions", filtered.value, key,
                               direction).sorted,
          ref   |-> 0]

\* the cells a render of PortfolioTable starts from: empty on a mount
CellBefore(cell) == IF sortKey["positions"] = "unmounted" THEN NoMemo ELSE cell

\* a render of the application in the state the action leads to
ViewRender ==
    /\ filteredMemo' =
          IF sortKey'["positions"] = "unmounted" THEN NoMemo
          ELSE UseMemoFiltered(CellBefore(filteredMemo), viewPositions,
                               selectedAccount')
    /\ sortedMemo' =
          IF sortKey'["positions"] = "unmounted" THEN NoMemo
          ELSE UseMemoSorted(CellBefore(sortedMemo), filteredMemo',
                             sortKey'["positions"],
                             sortDirection'["positions"])
    /\ viewPositions' =
          IF sortKey'["positions"] = "unmounted" THEN viewPositions
          ELSE DataAfterRender("positions", selectedAccount',
                               sortKey'["positions"],
                               sortDirection'["positions"])
    /\ viewBuyHistory' =
          IF sortKey'["buy"] = "unmounted" THEN viewBuyHistory
          ELSE DataAfterRender("buy", selectedAccount', sortKey'["buy"],
                               sortDirection'["buy"])
    /\ viewSellHistory' =
          IF sortKey'["sell"] = "unmounted" THEN viewSellHistory
          ELSE DataAfterRender("sell", selectedAccount', sortKey'["sell"],
                               sortDirection'["sell"])

ViewFrame ==
    UNCHANGED <<csvVars, posVars, sumVars, appVars, tokVars, sortVars>>

ViewIdle ==
    /\ viewPositions = <<>> /\ viewBuyHistory = <<>> /\ viewSellHistory = <<>>
    /\ activeTab = "portfolio" /\ selectedAccount = "All"
    /\ sortKey = [t \in Tables |-> "unmounted"]
    /\ sortDirection = [t \in Tables |-> "unmounted"]
    /\ streak = 0 /\ lastClicked = ""
    /\ filteredMemo = NoMemo /\ sortedMemo = NoMemo
    /\ viewPc = "idle"

\* the first render after the load: the portfolio tab, every account, the
\* positions table mounted with its default sort
ViewInit ==
    /\ \E under \in Tables :
          /\ viewPositions \in
                (IF under = "positions"
                 THEN SeqsUpTo(ShownPool("positions"), MaxRows)
                 ELSE {<<PositionOf(parseCSVLine(PosRowA))>>})
          /\ viewBuyHistory \in
                (IF under = "buy" THEN SeqsUpTo(ShownPool("buy"), MaxRows)
                 ELSE {<<>>})
          /\ viewSellHistory \in
                (IF under = "sell" THEN SeqsUpTo(ShownPool("sell"), MaxRows)
                 ELSE {<<>>})
    /\ activeTab = "portfolio" /\ selectedAccount = "All"
    /\ sortKey = [t \in Tables |->
                     IF t = "positions" THEN DefaultSortKey(t)
                     ELSE "unmounted"]
    /\ sortDirection = [t \in Tables |->
                           IF t = "positions" THEN "desc" ELSE "unmounted"]
    /\ streak = 1 /\ lastClicked = ""
    /\ filteredMemo = UseMemoFiltered(NoMemo, viewPositions, "All")
    /\ sortedMemo = UseMemoSorted(NoMemo, filteredMemo,
                                  DefaultSortKey("positions"), "desc")
    /\ viewPc = "shown"

\* a faulty variant: a click on another field keeps the direction
HandleSortKeepDirection(key, sortKeyNow, directionNow) ==
    IF sortKeyNow = key
    THEN [sortKey |-> sortKeyNow,
          sortDirection |-> IF directionNow = "asc" THEN "desc" ELSE "asc"]
    ELSE [sortKey |-> key, sortDirection |-> directionNow]

\* handleSort(key) of a table whose state is sortKeyNow, directionNow
HandleSortOf(key, sortKeyNow, directionNow) ==
    IF sortKeyNow = key
    THEN [sortKey |-> sortKeyNow,
          sortDirection |-> IF directionNow = "asc" THEN "desc" ELSE "asc"]
    ELSE [sortKey |-> key, sortDirection |-> "desc"]

\* a faulty variant: one sort state shared by the three tables
HandleSortShared ==
    /\ viewPc = "shown"
    /\ \E table \in Tables : \E key \in SortableKeys(table) :
          /\ sortKey[table] # "unmounted"
          /\ sortKey[table] = key => streak < MaxStreak
          /\ LET next == HandleSortOf(key, sortKey[table],
                                      sortDirection[table])
             IN  /\ sortKey' = [t \in Tables |-> next.sortKey]
                 /\ sortDirection' = [t \in Tables |-> next.sortDirection]
          /\ streak' = IF sortKey[table] = key THEN streak + 1 ELSE 1
          /\ lastClicked' = key
    /\ UNCHANGED <<activeTab, selectedAccount, viewPc>>
    /\ ViewRender
    /\ ViewFrame

\* a click on a header of the mounted table
HandleSort ==
    /\ viewPc = "shown"
    /\ \E table \in Tables : \E key \in SortableKeys(table) :
          /\ sortKey[table] # "unmounted"
          /\ sortKey[table] = key => streak < MaxStreak
          /\ LET next == HandleSortOf(key, sortKey[table],
                                      sortDirection[table])
             IN  /\ sortKey' = [sortKey EXCEPT ![table] = next.sortKey]
                 /\ sortDirection' =
                       [sortDirection EXCEPT ![table] = next.sortDirection]
          /\ streak' = IF sortKey[table] = key THEN streak + 1 ELSE 1
          /\ lastClicked' = key
    /\ UNCHANGED <<activeTab, selectedAccount, viewPc>>
    /\ ViewRender
    /\ ViewFrame

\* a click on a button of AccountFilter, shown under the portfolio tab
SelectAccount ==
    /\ viewPc = "shown"
    /\ activeTab = "portfolio"
    /\ \E account \in Accounts : selectedAccount' = account
    /\ UNCHANGED <<activeTab, sortKey, sortDirection, streak, lastClicked,
                   viewPc>>
    /\ ViewRender
    /\ ViewFrame

\* a faulty variant: the direction is kept across the tab switch, as if it
\* were state of App
SetActiveTabKeepsDirection ==
    /\ viewPc = "shown"
    /\ \E tab \in Tabs :
          /\ activeTab' = tab
          /\ IF tab = activeTab
             THEN UNCHANGED <<sortKey, sortDirection, streak, lastClicked>>
             ELSE /\ sortKey' =
                        [t \in Tables |->
                            IF IsMounted(t, tab, viewBuyHistory,
                                         viewSellHistory)
                            THEN DefaultSortKey(t) ELSE "unmounted"]
                  /\ sortDirection' =
                        [t \in Tables |->
                            IF IsMounted(t, tab, viewBuyHistory,
                                         viewSellHistory)
                            THEN (IF \E u \in Tables :
                                        sortDirection[u] = "asc"
                                  THEN "asc" ELSE "desc")
                            ELSE "unmounted"]
                  /\ streak' = 1 /\ lastClicked' = ""
    /\ UNCHANGED <<selectedAccount, viewPc>>
    /\ ViewRender
    /\ ViewFrame

\* a click on a tab: setActiveTab(tab).  The table of the tab left is
\* unmounted and the table of the tab entered is mounted with its initial
\* state.
SetActiveTab ==
    /\ viewPc = "shown"
    /\ \E tab \in Tabs :
          /\ activeTab' = tab
          /\ IF tab = activeTab
             THEN UNCHANGED <<sortKey, sortDirection, streak, lastClicked>>
             ELSE /\ sortKey' =
                        [t \in Tables |->
                            IF IsMounted(t, tab, viewBuyHistory,
                                         viewSellHistory)
                            THEN DefaultSortKey(t) ELSE "unmounted"]
                  /\ sortDirection' =
                        [t \in Tables |->
                            IF IsMounted(t, tab, viewBuyHistory,
                                         viewSellHistory)
                            THEN "desc" ELSE "unmounted"]
                  /\ streak' = 1 /\ lastClicked' = ""
    /\ UNCHANGED <<selectedAccount, viewPc>>
    /\ ViewRender
    /\ ViewFrame

(***************************************************************************)
(* The filter and the sort of a table run on their own: one render of a    *)
(* table with given props and sort state.                                  *)
(***************************************************************************)
SortIdle ==
    /\ sortArgs = <<>> /\ sortOut = <<>> /\ sortPc = "idle"

\* the props and the state of a table about to render
SortInit ==
    /\ \E table \in Tables :
       \E rows \in SeqsUpTo(PoolOf(table), MaxRows),
          key \in SortableKeys(table), direction \in {"asc", "desc"},
          account \in (IF table = "positions" THEN Accounts ELSE {"All"}) :
          sortArgs = [table |-> table, rows |-> rows, key |-> key,
                      direction |-> direction, account |-> account]
    /\ sortOut = <<>>
    /\ sortPc = "render"

\* a buy-history table about to render, sorted on a field of numbers and
\* N/A
SortMixedInit ==
    /\ \E rows \in SeqsUpTo(ViewBuyPool, MaxMixedRows),
          key \in MixedKeys("buy") \cap SortableKeys("buy"),
          direction \in {"asc", "desc"} :
          sortArgs = [table |-> "buy", rows |-> rows, key |-> key,
                      direction |-> direction, account |-> "All"]
    /\ sortOut = <<>>
    /\ sortPc = "render"

SortFrame ==
    UNCHANGED <<csvVars, posVars, sumVars, appVars, viewVars, tokVars>>

\* one render: the useMemo bodies run, filteredPositions first when the
\* table is the positions table; the prop is the array the sort was given
\* when no filter made a new array
Rendered(args, out) ==
    [rows     |-> IF args.table = "positions" /\ args.account # ""
                       /\ args.account # "All"
                  THEN args.rows ELSE out.source,
     filtered |-> out.source,
     sorted   |-> out.sorted,
     cells    |-> IF args.table = "buy"
                  THEN [k \in 1..Len(out.sorted) |->
                           BuyRowCells(out.sorted[k])]
                  ELSE <<>>]

RenderTable(args) ==
    Rendered(args,
             sortedRows(args.table,
                        IF args.table = "positions"
                        THEN filteredPositions(args.rows, args.account)
                        ELSE args.rows,
                        args.key, args.direction))

\* the table renders
SortRender ==
    /\ sortPc = "render"
    /\ sortOut' = RenderTable(sortArgs)
    /\ sortPc' = "rendered"
    /\ UNCHANGED sortArgs
    /\ SortFrame

\* the table renders again with the rows it has just shown as its prop
SortAgain ==
    /\ sortPc = "rendered"
    /\ sortArgs' = [sortArgs EXCEPT !.rows = sortOut.sorted,
                                    !.account = "All"]
    /\ sortOut' = RenderTable(sortArgs')
    /\ sortPc' = "again"
    /\ SortFrame

(***************************************************************************)
(* parseNumber and parseCurrency run on their own on a token.              *)
(***************************************************************************)
\* the whole parts and the fractions of the numeric tokens
TokenWholes == {0, 7, 12, 1234, 98765}
TokenFractions == {"", "5", "56", "056"}

\* the number a sign, a whole part and a fraction denote
DenotedValue(sign, whole, fraction) ==
    LET magnitude ==
            whole * Unit + (NatOf(fraction) * Unit) \div Pow10(Len(fraction))
    IN  IF sign = "-" THEN 0 - magnitude ELSE magnitude

\* the token written with or without separators and quotes
NumericToken(sign, whole, fraction, grouping, quoting) ==
    LET ds == IF grouping THEN Grouped(DigitsOf(whole)) ELSE DigitsOf(whole)
        body == IF fraction = "" THEN ds ELSE ds \o "." \o fraction
    IN  IF quoting = "all" THEN "\"" \o sign \o body \o "\""
        ELSE IF quoting = "digits" THEN sign \o "\"" \o body \o "\""
        ELSE sign \o body

\* tokens that are no numbers, or not wholly one
TextTokens ==
    {"abc", "N/A", "12abc", "1.5x", "1+2", "1.2.3", "--5", "GBP", "\"GBP\"",
     "\"G,B P\"", " usd ", "e5", "0x1A", "NaN", "-", ".", "1 2", "abc12",
     "7%", "\"\""}

TokenAlphabet == {"a", "B", ",", "\"", " ", "+"}

TokenStrings ==
    UNION {StringsOfLen(TokenAlphabet, n) : n \in 0..MaxLineLen}

TokIdle ==
    /\ token = "" /\ tokenKind = "none" /\ tokenValue = 0
    /\ numberOut = 0 /\ currencyOut = "" /\ tokPc = "idle"

\* a call with a numeric token, whose value is kept beside it, or with any
\* other text
TokInit ==
    /\ \/ /\ \E sign \in {"", "+", "-"}, whole \in TokenWholes,
                fraction \in TokenFractions, grouping \in BOOLEAN,
                quoting \in {"none", "all", "digits"} :
                /\ token = NumericToken(sign, whole, fraction, grouping,
                                        quoting)
                /\ tokenValue = DenotedValue(sign, whole, fraction)
          /\ tokenKind = "numeric"
       \/ /\ token \in TextTokens \cup TokenStrings
          /\ tokenValue = 0
          /\ tokenKind = "text"
    /\ numberOut = 0 /\ currencyOut = "" /\ tokPc = "call"

TokFrame ==
    UNCHANGED <<csvVars, posVars, sumVars, appVars, viewVars, sortVars>>

\* parseNumber(token)
TokParseNumber ==
    /\ tokPc = "call"
    /\ numberOut' = parseNumber(token)
    /\ tokPc' = "number"
    /\ UNCHANGED <<token, tokenKind, tokenValue, currencyOut>>
    /\ TokFrame

\* parseCurrency(token)
TokParseCurrency ==
    /\ tokPc = "call"
    /\ currencyOut' = parseCurrency(token)
    /\ tokPc' = "currency"
    /\ UNCHANGED <<token, tokenKind, tokenValue, numberOut>>
    /\ TokFrame

(***************************************************************************)
(* Specifications.                                                         *)
(***************************************************************************)
\* parseCSVLine on every line over the alphabet
InitCSVLine == CSVInit /\ PosIdle /\ SumIdle /\ AppIdle /\ ViewIdle /\ TokIdle /\ SortIdle
NextCSVLine == CSVQuote \/ CSVComma \/ CSVOther \/ CSVReturn
SpecCSVLine == InitCSVLine /\ [][NextCSVLine]_vars

\* parsePositionsCSV on every document of the pool
InitPositions == CSVIdle /\ PosInit /\ SumIdle /\ AppIdle /\ ViewIdle /\ TokIdle /\ SortIdle
NextPositions ==
    PosStart \/ PosSkipEmpty \/ PosSkipShort \/ PosPush \/ PosReturn
SpecPositions == InitPositions /\ [][NextPositions]_vars

\* parseSummaryCSV on every document of the pool
InitSummary == CSVIdle /\ PosIdle /\ SumInit /\ AppIdle /\ ViewIdle /\ TokIdle /\ SortIdle
NextSummary ==
    SumBegin \/ SumMarkerAS \/ SumMarkerCT \/ SumData \/ SumReturn
SpecSummary == InitSummary /\ [][NextSummary]_vars

\* either parser
InitParsers == InitPositions \/ InitSummary
NextParsers ==
    \/ PosStart \/ PosSkipEmpty \/ PosSkipShort \/ PosPush \/ PosReturn
    \/ SumBegin \/ SumMarkerAS \/ SumMarkerCT \/ SumData \/ SumReturn
SpecParsers == InitParsers /\ [][NextParsers]_vars

\* the load sequence
InitLoad == CSVIdle /\ PosIdle /\ SumIdle /\ AppInit /\ ViewIdle /\ TokIdle /\ SortIdle
NextLoad ==
    \/ IssueRequests \/ Settle \/ AllResolved \/ AnyRejected
    \/ CheckMandatory \/ PositionsText \/ SummaryText \/ ParsePortfolio
    \/ BuyHistoryStep \/ SellHistoryStep \/ Combine \/ Catch \/ Finally
SpecLoad == InitLoad /\ [][NextLoad]_vars

\* loadData moves on from a step that awaits nothing: the two parse calls,
\* and the block of a history whose response is not ok, which is skipped
SyncStepRuns ==
    \/ appPc = "parse" /\ appPc' = "buy"
    \/ appPc = "buy" /\ ~Ok("buy") /\ appPc' = "sell"
    \/ appPc = "sell" /\ ~Ok("sell") /\ appPc' = "combine"

\* the load sequence when every request settles and the event loop runs
\* every continuation that is ready.  A read of a body (await
\* response.text()) is no such continuation: its promise may never settle,
\* and loadData then stands at the read for ever.
FairLoad ==
    /\ WF_vars(IssueRequests) /\ WF_vars(Settle)
    /\ WF_vars(AllResolved) /\ WF_vars(AnyRejected)
    /\ WF_vars(CheckMandatory)
    /\ WF_appPc(SyncStepRuns)
    /\ WF_vars(Combine) /\ WF_vars(Catch) /\ WF_vars(Finally)

SpecLoadFair == InitLoad /\ [][NextLoad]_vars /\ FairLoad

\* the rendered application
InitView ==
    /\ CSVIdle /\ PosIdle /\ SumIdle /\ AppIdle /\ ViewInit /\ TokIdle
    /\ SortIdle
NextView == HandleSort \/ SelectAccount \/ SetActiveTab
SpecView == InitView /\ [][NextView]_vars

\* parseNumber and parseCurrency on every token
InitTokens ==
    /\ CSVIdle /\ PosIdle /\ SumIdle /\ AppIdle /\ ViewIdle /\ TokInit
    /\ SortIdle
NextTokens == TokParseNumber \/ TokParseCurrency
SpecTokens == InitTokens /\ [][NextTokens]_vars

\* parseSummaryCSV on the documents of the date pool
InitSummaryDate ==
    /\ CSVIdle /\ PosIdle /\ SumDateInit /\ AppIdle /\ ViewIdle /\ TokIdle
    /\ SortIdle
NextSummaryDate ==
    SumBegin \/ SumMarkerAS \/ SumMarkerCT \/ SumData \/ SumReturn
SpecSummaryDate == InitSummaryDate /\ [][NextSummaryDate]_vars

\* the filter and the sort of every table on every input
InitSort ==
    /\ CSVIdle /\ PosIdle /\ SumIdle /\ AppIdle /\ ViewIdle /\ TokIdle
    /\ SortInit
NextSort == SortRender \/ SortAgain
SpecSort == InitSort /\ [][NextSort]_vars

\* the sort of the buy-history table on its fields of numbers and N/A
InitSortMixed ==
    /\ CSVIdle /\ PosIdle /\ SumIdle /\ AppIdle /\ ViewIdle /\ TokIdle
    /\ SortMixedInit
NextSortMixed == SortRender \/ SortAgain
SpecSortMixed == InitSortMixed /\ [][NextSortMixed]_vars

\* the whole program
Init ==
    \/ InitCSVLine \/ InitPositions \/ InitSummary \/ InitLoad
    \/ InitView \/ InitTokens \/ InitSort \/ InitSummaryDate
    \/ InitSortMixed
Next ==
    \/ NextCSVLine \/ NextParsers \/ NextLoad \/ NextView \/ NextTokens
    \/ NextSort
Spec == Init /\ [][Next]_vars

(***************************************************************************)
(* Properties of parseSummaryCSV.                                          *)
(***************************************************************************)
\* line k (from 1) of ls holds the ACCOUNT SUMMARIES marker
HoldsAS(ls, k) == Includes(Trim(ls[k]), MarkerAS)
\* line k (from 1) of ls holds the COMBINED TOTALS marker
HoldsCT(ls, k) == Includes(Trim(ls[k]), MarkerCT)
\* line k is a marker line
IsMarker(ls, k) == HoldsAS(ls, k) \/ HoldsCT(ls, k)
FieldsOf(ls, k) == parseCSVLine(Trim(ls[k]))

\* C1: while parseSummaryCSV scans, whatever the order and number of the
\* markers, the account-summaries section and the combined-totals section
\* are never active together, and no line is parsed both into an
\* AccountSummary and into the combined totals.
C1_OneSectionAtATime ==
    /\ ~(inAccountSummaries /\ inCombinedTotals)
    /\ pushedAt \cap totalsAt = {}

\* C2: the scan is strictly forward: no line after the first line holding
\* COMBINED TOTALS produces an AccountSummary.
C2_NoSummaryAfterTotalsMarker ==
    \A i \in pushedAt : \A k \in 1..i : ~HoldsCT(sumLines, k)

\* the lines the account-summaries section is made of: after a line
\* holding ACCOUNT SUMMARIES, before every line holding COMBINED TOTALS,
\* no marker line, not empty, not the column header, at least 5 fields
C3Section(ls) ==
    {k \in 1..Len(ls) :
        /\ \E j \in 1..(k - 1) : HoldsAS(ls, j)
        /\ \A j \in 1..(k - 1) : ~(HoldsCT(ls, j) /\ ~HoldsAS(ls, j))
        /\ ~IsMarker(ls, k)
        /\ Trim(ls[k]) # ""
        /\ ~Includes(Trim(ls[k]), HeaderAS)
        /\ Len(FieldsOf(ls, k)) >= 5}

\* C3: parseSummaryCSV returns exactly one AccountSummary, in document
\* order, for every line of the account-summaries section, and none for any
\* other line.
C3_SummariesAreTheSection ==
    sumPc = "done" =>
        /\ pushedAt = {k - 1 : k \in C3Section(sumLines)}
        /\ Len(accountSummaries) = Cardinality(C3Section(sumLines))
        /\ \A k \in C3Section(sumLines) :
              LET n == Cardinality({j \in C3Section(sumLines) : j <= k})
                  v == FieldsOf(sumLines, k)
              IN  accountSummaries[n] =
                      [account   |-> v[1],
                       freeFunds |-> parseNumber(v[2]),
                       portfolio |-> parseNumber(v[3]),
                       result    |-> parseNumber(v[4]),
                       currency  |-> parseCurrency(v[5])]

\* the first line that holds COMBINED TOTALS, 0 when none
FirstHoldingCT(ls) ==
    LET at == {k \in 1..Len(ls) : HoldsCT(ls, k)}
    IN  IF at = {} THEN 0 ELSE SetMin(at)

\* the first line that holds COMBINED TOTALS and does not hold ACCOUNT
\* SUMMARIES: the line that sets the combined-totals section going, 0 when
\* none
FirstCT(ls) ==
    LET at == {k \in 1..Len(ls) : HoldsCT(ls, k) /\ ~HoldsAS(ls, k)}
    IN  IF at = {} THEN 0 ELSE SetMin(at)

\* the totals are those of line k of ls
TotalsFrom(ls, k) ==
    LET v == FieldsOf(ls, k)
    IN  /\ totalFreeFunds = parseNumber(v[1])
        /\ totalPortfolio = parseNumber(v[2])
        /\ totalResult = parseNumber(v[3])
        /\ currency = parseCurrency(v[4])

TotalsAreDefault ==
    /\ totalFreeFunds = 0 /\ totalPortfolio = 0 /\ totalResult = 0
    /\ currency = "GBP"

\* the lines after line from (a marker line) that are not empty, are not
\* the TOTAL_FREE_FUNDS header and tokenize to at least 4 fields
C4After(ls, from) ==
    {k \in 1..Len(ls) :
        /\ from # 0 /\ k > from
        /\ Trim(ls[k]) # ""
        /\ ~Includes(Trim(ls[k]), HeaderCT)
        /\ Len(FieldsOf(ls, k)) >= 4}

\* the lines C4 as stated takes the totals from: those after the first line
\* holding COMBINED TOTALS
C4Candidates(ls) == C4After(ls, FirstHoldingCT(ls))

\* C4 as stated: the combined totals are taken from the last line after the
\* COMBINED TOTALS marker that is not empty, is not the TOTAL_FREE_FUNDS
\* header and tokenizes to at least 4 fields; 0, 0, 0 and GBP when there is
\* none.
C4_TotalsFromLastCandidate ==
    sumPc = "done" =>
        IF C4Candidates(sumLines) = {} THEN TotalsAreDefault
        ELSE TotalsFrom(sumLines, SetMax(C4Candidates(sumLines)))

\* the lines after the first line that holds COMBINED TOTALS and not
\* ACCOUNT SUMMARIES, that hold no marker themselves
C4DataLines(ls) == {k \in C4After(ls, FirstCT(ls)) : ~IsMarker(ls, k)}

\* C4, amended: the combined totals are taken from the last line, after the
\* first line that holds COMBINED TOTALS and does not hold ACCOUNT
\* SUMMARIES, that is not empty, holds neither marker, does not hold
\* TOTAL_FREE_FUNDS and tokenizes to at least 4 fields; 0, 0, 0 and GBP when
\* there is none.
C4_TotalsFromLastDataLine ==
    sumPc = "done" =>
        /\ totalsAt = {k - 1 : k \in C4DataLines(sumLines)}
        /\ IF C4DataLines(sumLines) = {} THEN TotalsAreDefault
           ELSE TotalsFrom(sumLines, SetMax(C4DataLines(sumLines)))

\* two lines set the totals, and the later one is what is returned
C4_Witness ==
    /\ sumPc = "done"
    /\ Cardinality(totalsAt) = 2
    /\ sumLines[3] = SumTotalsB
    /\ totalFreeFunds = Unit /\ totalResult = 0 - 3 * Unit /\ currency = "USD"

\* ls without its line k (from 1)
RemoveAt(ls, k) == SubSeq(ls, 1, k - 1) \o SubSeq(ls, k + 1, Len(ls))

\* the scanner's state when it comes to line k (from 1) of ls
SumStateAt(ls, k) == SumLoop(SumStart(ls), SubSeq(ls, 1, k - 1), 0)

\* line k of ls is a row of a section with fewer tokens than the section asks
C6ShortRow(ls, k) ==
    /\ ~IsMarker(ls, k)
    /\ Trim(ls[k]) # ""
    /\ \/ /\ SumStateAt(ls, k).inAccountSummaries
          /\ ~Includes(Trim(ls[k]), HeaderAS)
          /\ Len(FieldsOf(ls, k)) < 5
       \/ /\ SumStateAt(ls, k).inCombinedTotals
          /\ ~Includes(Trim(ls[k]), HeaderCT)
          /\ Len(FieldsOf(ls, k)) < 4

\* C6: a row with fewer tokens than its section asks for (5 in the
\* account-summaries section, 4 in the combined-totals section) is dropped
\* with no other effect: the document parses to what it parses to with the
\* row removed.
C6_ShortRowHasNoEffect ==
    sumPc = "done" =>
        \A k \in 1..Len(sumLines) :
            C6ShortRow(sumLines, k) =>
                parseSummaryCSV(JoinLines(RemoveAt(sumLines, k)))
                    = SumReturned(SumState)

(***************************************************************************)
(* Properties of parsePositionsCSV.                                        *)
(***************************************************************************)
\* the lines of the document as written
PosWritten == SplitLines(posContent)

\* the document is one header line, then rows that each tokenize to at
\* least 13 fields
C5WellFormed ==
    /\ Trim(PosWritten[1]) # ""
    /\ \A k \in 2..Len(PosWritten) :
          Len(parseCSVLine(Trim(PosWritten[k]))) >= 13

\* C5: on a document of one header line and N well-formed rows,
\* parsePositionsCSV returns N records in file order, the k-th from the k-th
\* row, tokens 0..12 going left to right to accountType, name, ticker,
\* quantity, priceOwnedCurrency, currentPriceCurrency, priceOwned,
\* priceOwnedGBP, currentPrice, currentPriceGBP, valueGBP, changeGBP,
\* changePercent.
C5_OneRecordPerRow ==
    (posPc = "done" /\ C5WellFormed) =>
        /\ Len(positions) = Len(PosWritten) - 1
        /\ \A k \in 1..Len(positions) :
              LET v == parseCSVLine(Trim(PosWritten[k + 1]))
                  p == positions[k]
              IN  /\ p.accountType = v[1]
                  /\ p.name = v[2]
                  /\ p.ticker = v[3]
                  /\ p.quantity = parseNumber(v[4])
                  /\ p.priceOwnedCurrency = parseCurrency(v[5])
                  /\ p.currentPriceCurrency = parseCurrency(v[6])
                  /\ p.priceOwned = parseNumber(v[7])
                  /\ p.priceOwnedGBP = parseNumber(v[8])
                  /\ p.currentPrice = parseNumber(v[9])
                  /\ p.currentPriceGBP = parseNumber(v[10])
                  /\ p.valueGBP = parseNumber(v[11])
                  /\ p.changeGBP = parseNumber(v[12])
                  /\ p.changePercent = parseNumber(v[13])

\* the header, the Microsoft row and the row with quoted commas, parsed
C5_Witness ==
    /\ posPc = "done"
    /\ posContent = JoinLines(<<PosHeader, PosRowA, PosRowQuoted>>)
    /\ Len(positions) = 2
    /\ positions[1].name = "Microsoft"
    /\ positions[1].ticker = "MSFT_US_EQ"
    /\ 1000 * positions[1].quantity = 138 * Unit
    /\ 100 * positions[1].changeGBP = 1305 * Unit
    /\ 100 * positions[1].changePercent = 2274 * Unit
    /\ positions[2].name = "Alphabet, Inc."
    /\ 10 * positions[2].priceOwned = 11005 * Unit

(***************************************************************************)
(* Properties of both parsers.                                             *)
(***************************************************************************)
\* C7: parsePositionsCSV and parseSummaryCSV are total: on every input
\* neither throws, the loop index stays within the lines, and every step of
\* a loop either moves to the next line or returns.
C7_ParsersAreTotal ==
    /\ [](posPc # "threw" /\ sumPc # "threw")
    /\ [](posPc = "loop" => posI <= Len(posLines) \/ posI = 1)
    /\ [](sumPc = "loop" => sumI <= Len(sumLines))
    /\ [][/\ posPc = "loop" => posI' = posI + 1 \/ posPc' = "done"
          /\ sumPc = "loop" => sumI' = sumI + 1 \/ sumPc' = "done"]_vars

\* a parser has returned from a document that holds an unbalanced quote,
\* holds only blank lines, or is empty
C7_Witness ==
    \/ /\ posPc = "done" /\ Len(posLines) = 3 /\ posLines[2] = PosRowUnbalanced
       /\ posLines[3] = PosRowShort /\ positions = <<>>
    \/ /\ sumPc = "done" /\ sumContent = "\n\n" /\ accountSummaries = <<>>

(***************************************************************************)
(* Properties of parseCSVLine.                                             *)
(***************************************************************************)
\* the double quotes among the first k characters of the line
QuotesBefore(k) == Cardinality({j \in 1..k : Char(line, j) = "\""})

\* the commas met so far while the in-quotes flag was off
FieldEnds == {k \in 1..ci : Char(line, k) = "," /\ QuotesBefore(k) % 2 = 0}

LastFieldEnd == IF FieldEnds = {} THEN 0 ELSE SetMax(FieldEnds)

\* C8: the in-quotes flag starts off and flips at every double quote; a
\* comma ends the current field exactly when the flag is off at that comma,
\* a comma met with the flag on stays in the current field; no returned
\* field holds a double quote.
C8_QuoteToggle ==
    csvPc \in {"scan", "done"} =>
        /\ inQuotes = (QuotesBefore(ci) % 2 = 1)
        /\ Len(result) = Cardinality(FieldEnds)
                            + (IF csvPc = "done" THEN 1 ELSE 0)
        /\ current = Strip(SubSeq(line, LastFieldEnd + 1, ci), {"\""})
        /\ \A n \in 1..Len(result) : ~Includes(result[n], "\"")
        /\ csvPc = "done" => result[Len(result)] = current

\* a quoted comma kept in its field, and an unquoted one that ends it
C8_Witness ==
    /\ csvPc = "done"
    /\ line = "\",\","
    /\ result = <<",", "">>

(***************************************************************************)
(* Properties of App.loadData.                                             *)
(***************************************************************************)
\* the response for document d has come back and is not a success
Unsuccessful(d) == responses[d] \in {"notok", "rejected"}

\* C9: if the positions or the summary response is not successful no
\* snapshot is ever constructed and, once the load is over, exactly one
\* error message has been recorded; the error and the snapshot are never
\* both set.
C9_MandatoryFailureAborts ==
    /\ ~(error # "" /\ portfolioData # <<>>)
    /\ errorsRecorded <= 1
    /\ Unsuccessful("positions") \/ Unsuccessful("summary") =>
          /\ portfolioData = <<>>
          /\ appPc = "done" => errorsRecorded = 1 /\ error # ""

\* the load is over after a positions response that was a success and a
\* summary response that was not: one error, no snapshot
C9_Witness ==
    /\ appPc = "done"
    /\ responses["positions"] = "ok" /\ responses["summary"] = "notok"
    /\ error = "Failed to load portfolio CSV files"
    /\ errorsRecorded = 1
    /\ portfolioData = <<>>
    /\ loading = FALSE

\* the history the application holds for document h
HistoryOf(h) == IF h = "buy" THEN buyHistory ELSE sellHistory

\* what the parser of document h makes of a body
ParsedHistory(h, t) ==
    IF h = "buy" THEN parseBuyHistoryCSV(t) ELSE parseSellHistoryCSV(t)

\* C10: when the fetch of the buy or of the sell history fails (a response
\* that is not a success, or a rejected request) while both mandatory
\* documents load, the load ends with the snapshot constructed and no
\* error, the failed document's history empty, and the other history loaded
\* from its body.
C10_OptionalFailureDegrades ==
    (/\ appPc = "done"
     /\ Ok("positions") /\ Ok("summary")
     /\ \A d \in Docs : bodies[d] # "failed"
     /\ Unsuccessful("buy") \/ Unsuccessful("sell"))
    => /\ portfolioData # <<>>
       /\ error = ""
       /\ \A h \in {"buy", "sell"} :
             IF Unsuccessful(h)
             THEN HistoryOf(h) = <<>>
             ELSE Ok(h) => /\ bodies[h] = "read"
                           /\ HistoryOf(h) = ParsedHistory(h, texts[h])

(***************************************************************************)
(* Properties of the account filter and of the sort.                       *)
(***************************************************************************)
\* the places of rows that hold a position of the account
PlacesOf(rows, account) ==
    {k \in 1..Len(rows) : rows[k].accountType = account}

\* the n-th smallest element of a set of numbers
Nth(S, n) == CHOOSE k \in S : Cardinality({j \in S : j <= k}) = n

\* C11: the account filter returns the whole input in its order when the
\* selector is All, and otherwise exactly the positions whose accountType
\* equals the selector, in their original relative order.
C11_FilterByAccount ==
    (sortPc = "rendered" /\ sortArgs.table = "positions") =>
        IF sortArgs.account = "All"
        THEN sortOut.filtered = sortArgs.rows
        ELSE LET places == PlacesOf(sortArgs.rows, sortArgs.account)
             IN  /\ Len(sortOut.filtered) = Cardinality(places)
                 /\ \A n \in 1..Len(sortOut.filtered) :
                       sortOut.filtered[n] = sortArgs.rows[Nth(places, n)]

\* positions of both accounts filtered by Trading: one is kept, the ISA
\* ones before and after it are dropped
C11_Witness ==
    /\ sortPc = "rendered" /\ sortArgs.table = "positions"
    /\ sortArgs.account = "Trading"
    /\ Len(sortArgs.rows) = 3
    /\ sortArgs.rows[1].accountType = "ISA"
    /\ sortArgs.rows[3].accountType = "ISA"
    /\ Len(sortOut.filtered) = 1
    /\ sortOut.filtered[1] = sortArgs.rows[2]

\* the other direction
Opposite(direction) == IF direction = "asc" THEN "desc" ELSE "asc"

\* the rows the table would show with the other direction
SortedOpposite ==
    RenderTable([sortArgs EXCEPT !.direction = Opposite(@)]).sorted

\* the table has rendered at least one row sorted by a field declared number
C12Case ==
    /\ sortPc = "rendered"
    /\ sortArgs.key \in NumberKeys(sortArgs.table)
    /\ sortOut.filtered # <<>>

\* C12 as stated: for every non-empty sequence and every numeric sort
\* field, the descending result is the reverse of the ascending result.
C12_DescendingIsReverse ==
    C12Case => sortOut.sorted = Reverse(SortedOpposite)

\* no two of the rows sorted hold the same value in the sort field
DistinctInField ==
    \A i, j \in 1..Len(sortOut.filtered) :
        i # j => sortOut.filtered[i][sortArgs.key]
                    # sortOut.filtered[j][sortArgs.key]

\* C12, amended: for every non-empty sequence and every numeric sort field
\* in which no two records hold the same value, the descending result is
\* the reverse of the ascending result.
C12_DescendingIsReverseIfDistinct ==
    (C12Case /\ DistinctInField) => sortOut.sorted = Reverse(SortedOpposite)

\* three positions with three values, given neither in ascending nor in
\* descending order
C12_Witness ==
    /\ C12Case /\ DistinctInField
    /\ sortArgs.table = "positions" /\ sortArgs.key = "changeGBP"
    /\ sortArgs.direction = "desc"
    /\ Len(sortOut.sorted) = 3
    /\ sortOut.sorted # sortArgs.rows
    /\ sortOut.sorted # Reverse(sortArgs.rows)

\* C13: sorting the sorted result again by the same field and direction
\* yields the same sequence, also for the buy-history fields that mix
\* numbers and N/A.
C13_SortIdempotent ==
    sortPc = "again" => sortOut.sorted = sortArgs.rows

\* buy history sorted by performance with an N/A among the numbers: the
\* second sort moves no row
C13_Witness ==
    /\ sortPc = "again"
    /\ sortArgs.table = "buy" /\ sortArgs.key = "performance"
    /\ sortArgs.direction = "asc"
    /\ Len(sortArgs.rows) = 3
    /\ \E k \in 1..3 : sortArgs.rows[k].performance = NotAvailable
    /\ sortArgs.rows[1].performance.num < sortArgs.rows[2].performance.num
    /\ sortOut.sorted = sortArgs.rows

\* how many times record r occurs in s
CountIn(s, r) == Cardinality({k \in 1..Len(s) : s[k] = r})

\* the filtered sequence the sort is given
C20Input ==
    IF sortArgs.table = "positions"
    THEN filteredPositions(sortArgs.rows, sortArgs.account)
    ELSE sortArgs.rows

\* C20: the sort leaves the sequence it is given, and the parsed records
\* it comes from, as they were, and its result is a permutation of that
\* sequence.
C20_SortLeavesSource ==
    sortPc \in {"rendered", "again"} =>
        /\ sortOut.rows = sortArgs.rows
        /\ sortOut.filtered = C20Input
        /\ Len(sortOut.sorted) = Len(C20Input)
        /\ \A r \in PoolOf(sortArgs.table) :
              CountIn(sortOut.sorted, r) = CountIn(C20Input, r)

\* a record given twice, and rows the sort has moved
C20_Witness ==
    /\ sortPc = "rendered"
    /\ sortArgs.table = "sell" /\ sortArgs.key = "totalValue"
    /\ Len(sortArgs.rows) = 3
    /\ sortArgs.rows[1] = sortArgs.rows[3]
    /\ sortOut.sorted # sortArgs.rows
    /\ sortOut.rows = sortArgs.rows

(***************************************************************************)
(* Properties of the sort state of a table.                                *)
(***************************************************************************)
\* the step is a click on a header of the table shown
IsHeaderClick ==
    /\ activeTab' = activeTab
    /\ <<streak, lastClicked>>' # <<streak, lastClicked>>

\* C14: a click on the active field flips the direction and keeps the
\* field, a click on another field makes it active with the direction
\* descending; so the active field is the last one clicked and the
\* direction is descending exactly when that field has been selected an
\* odd number of times in a row, the default selection counting as one.
C14_HandleSort ==
    /\ [](\A t \in Tables :
            sortKey[t] # "unmounted" =>
                /\ lastClicked # "" => sortKey[t] = lastClicked
                /\ (sortDirection[t] = "desc") = (streak % 2 = 1))
    /\ [][IsHeaderClick =>
            \A t \in Tables :
                sortKey[t] # "unmounted" =>
                    IF lastClicked' = sortKey[t]
                    THEN /\ sortKey'[t] = sortKey[t]
                         /\ sortDirection'[t] = Opposite(sortDirection[t])
                    ELSE /\ sortKey'[t] = lastClicked'
                         /\ sortDirection'[t] = "desc"]_vars

\* the buy-history table after two clicks on a field that was not active
C14_Witness ==
    /\ activeTab = "buy-history"
    /\ sortKey["buy"] = "performance" /\ lastClicked = "performance"
    /\ sortDirection["buy"] = "asc"
    /\ streak = 2

(***************************************************************************)
(* Properties of the buy-history rows.                                     *)
(***************************************************************************)
\* C15: a buy-history field that holds N/A is shown as the text N/A,
\* formatCurrency returns N/A unchanged, a record whose performance is N/A
\* is labelled neither gain nor loss, and one whose performance is 0 is
\* labelled a gain.
C15_SentinelShownVerbatim ==
    (sortPc \in {"rendered", "again"} /\ sortArgs.table = "buy") =>
        \A k \in 1..Len(sortOut.sorted) :
            LET order == sortOut.sorted[k]
                cell == sortOut.cells[k]
            IN  /\ order.currentPrice = NotAvailable =>
                      cell.currentPrice = "N/A"
                /\ order.currentValue = NotAvailable =>
                      /\ cell.currentValue = "N/A"
                      /\ formatCurrency(order.currentValue) = "N/A"
                /\ order.performance = NotAvailable =>
                      /\ cell.performance = "N/A"
                      /\ formatCurrency(order.performance) = "N/A"
                      /\ cell.performanceClass = "text-portfolio-text-dim"
                /\ order.performance = NumberValue(0) =>
                      /\ cell.performanceClass = "text-portfolio-green"
                      /\ cell.performance = "+" \o PoundSign \o "0.00"

\* a row of N/A fields beside a row whose performance is 0 and a row whose
\* performance is a loss
C15_Witness ==
    /\ sortPc = "rendered" /\ sortArgs.table = "buy"
    /\ Len(sortOut.sorted) = 3
    /\ \E i, j, k \in 1..3 :
          /\ sortOut.sorted[i].performance = NotAvailable
          /\ sortOut.cells[i].currentValue = "N/A"
          /\ sortOut.sorted[j].performance = NumberValue(0)
          /\ sortOut.cells[j].performanceClass = "text-portfolio-green"
          /\ sortOut.cells[k].performanceClass = "text-portfolio-red"
          /\ sortOut.cells[k].performance = "-" \o PoundSign \o "19.50"
          /\ sortOut.cells[k].currentValue = PoundSign \o "280.50"

(***************************************************************************)
(* Properties of parseNumber and parseCurrency.                            *)
(***************************************************************************)
\* C16: for a token that is a decimal number, with or without quotes,
\* thousands separators and a leading sign, parseNumber returns the number
\* the token denotes.
C16_NumericTokenValue ==
    (tokPc = "number" /\ tokenKind = "numeric") => numberOut = tokenValue

\* a quoted token with a plus sign, a separator and a fraction, and a
\* negative one
C16_Witness ==
    /\ tokPc = "number" /\ tokenKind = "numeric"
    /\ \/ /\ token = "\"+1,234.56\""
          /\ numberOut = 1234 * Unit + (56 * Unit) \div 100
       \/ /\ token = "-\"98,765.5\""
          /\ numberOut = 0 - (98765 * Unit + (5 * Unit) \div 10)

\* the text parseNumber hands to parseFloat
Normalized(value) == Trim(Strip(value, {"\"", ",", "+"}))

\* s is digits, then e or E, an optional sign and digits, or is empty
IsExponentOrEmpty(s) ==
    \/ s = ""
    \/ /\ Len(s) >= 2 /\ Char(s, 1) \in {"e", "E"}
       /\ LET u == IF Char(s, 2) \in {"+", "-"} THEN Rest(s, 3)
                   ELSE Rest(s, 2)
          IN  u # "" /\ DigitRun(u) = Len(u)

\* s is a decimal literal from its first character to its last
IsUnsignedDecimal(s) ==
    LET i == DigitRun(s)
        afterInt == Rest(s, i + 1)
        pointed == Len(afterInt) > 0 /\ Char(afterInt, 1) = "."
        f == IF pointed THEN DigitRun(Rest(afterInt, 2)) ELSE 0
        tail == IF pointed THEN Rest(afterInt, f + 2) ELSE afterInt
    IN  /\ i + f > 0
        /\ IsExponentOrEmpty(tail)

\* s is wholly a number: an optional sign, then Infinity or a decimal
WhollyNumber(s) ==
    LET body == IF Len(s) > 0 /\ Char(s, 1) \in {"+", "-"} THEN Rest(s, 2)
                ELSE s
    IN  body = "Infinity" \/ IsUnsignedDecimal(body)

\* C17: for a token whose text after normalization is not wholly a number
\* (letters, nothing, digits followed by letters), parseNumber returns 0.
C17_NonNumericIsZero ==
    (tokPc = "number" /\ ~WhollyNumber(Normalized(token))) => numberOut = 0

\* C18: parseCurrency returns the characters of its input that are neither
\* a double quote nor a comma, in order and unchanged, without the white
\* space before the first and after the last of them that is not white
\* space.
C18_CurrencyStripsQuotesAndCommas ==
    tokPc = "currency" =>
        LET kept == {k \in 1..Len(token) : Char(token, k) \notin {"\"", ","}}
            solid == {k \in kept : ~IsWhiteSpace(Char(token, k))}
            shown == {k \in kept : /\ solid # {}
                                   /\ SetMin(solid) <= k
                                   /\ k <= SetMax(solid)}
        IN  /\ Len(currencyOut) = Cardinality(shown)
            /\ \A n \in 1..Len(currencyOut) :
                  Char(currencyOut, n) = Char(token, Nth(shown, n))

\* a quoted code with a comma and a space inside, and a padded lower-case
\* one
C18_Witness ==
    /\ tokPc = "currency"
    /\ \/ token = "\"G,B P\"" /\ currencyOut = "GB P"
       \/ token = " usd " /\ currencyOut = "usd"

(***************************************************************************)
(* Properties of the generated date.                                       *)
(***************************************************************************)
\* the text before the first line feed of s
FirstLine(s) ==
    LET nl == {k \in 1..Len(s) : Char(s, k) = "\n"}
    IN  IF nl = {} THEN s ELSE SubSeq(s, 1, SetMin(nl) - 1)

\* the rest of the line l after the leftmost "Generated on " that has a
\* character of the line after it, up to a carriage return; "" when the
\* line holds none
RestAfterGeneratedOn(l) ==
    LET n == Len("Generated on ")
        ends == {k \in 1..Len(l) : Char(l, k) \in {"\r", "\n"}}
        heads == {k \in 1..Len(l) :
                     /\ k + n <= Len(l)
                     /\ SubSeq(l, k, k + n - 1) = "Generated on "
                     /\ k + n \notin ends}
        from == SetMin(heads) + n
        after == {k \in ends : k > from}
    IN  IF heads = {} THEN ""
        ELSE SubSeq(l, from, IF after = {} THEN Len(l) ELSE SetMin(after) - 1)

\* C19 as stated: generatedDate is the rest of line 0 of the document after
\* "Generated on ", "" when line 0 does not hold that pattern; the text on
\* another line never sets it.
C19_DateFromLineZero ==
    sumPc \in {"loop", "done"} =>
        generatedDate = RestAfterGeneratedOn(FirstLine(sumContent))

\* C19 amended: generatedDate is the rest, after "Generated on ", of line 0
\* of the document without its leading and trailing white space, "" when
\* that line does not hold the pattern; the text on a later line never sets
\* it.
C19_DateFromFirstLineOfTrimmed ==
    sumPc \in {"loop", "done"} =>
        generatedDate = RestAfterGeneratedOn(FirstLine(Trim(sumContent)))

\* a date on line 0 with another date text on a later line, after the scan
C19_Witness ==
    /\ sumPc = "done"
    /\ generatedDate = "2025-11-16 11:02:10"
    /\ \E k \in 2..Len(sumLines) : Includes(sumLines[k], "Generated on 11:02")

(***************************************************************************)
(* Marker lines of the summary document.                                   *)
(***************************************************************************)
\* what the scan has returned so far of the summaries and the totals
SumData5 ==
    <<accountSummaries, totalFreeFunds, totalPortfolio, totalResult,
      currency>>

\* C21: a line that holds ACCOUNT SUMMARIES or COMBINED TOTALS is never
\* parsed into an AccountSummary or into the combined totals, in whichever
\* state it is met and however many fields it has: the turn of the loop on
\* it leaves the summaries and the totals as they were.
C21_MarkerLineIsNoData ==
    /\ [](\A i \in pushedAt \cup totalsAt : ~IsMarker(sumLines, i + 1))
    /\ [][(/\ sumPc = "loop" /\ sumI < Len(sumLines)
           /\ IsMarker(sumLines, sumI + 1))
              => SumData5' = SumData5]_vars

\* marker lines of 5 fields, one met in the account-summaries section and
\* one in the combined-totals section, and nothing parsed
C21_Witness ==
    /\ sumPc = "done"
    /\ Len(sumLines) = 3
    /\ sumLines[1] = MarkerAS
    /\ sumLines[2] = SumMarkedCT
    /\ sumLines[3] = SumMarkedAS
    /\ inAccountSummaries /\ inCombinedTotals
    /\ accountSummaries = <<>> /\ TotalsAreDefault

(***************************************************************************)
(* The header of the positions document.                                   *)
(***************************************************************************)
\* the lines of the document without its leading and trailing white space
PosTrimmedLines == SplitLines(Trim(posContent))

\* the lines after the first that tokenize to at least 13 fields
C22Rows ==
    {k \in 2..Len(PosTrimmedLines) :
        /\ Trim(PosTrimmedLines[k]) # ""
        /\ Len(parseCSVLine(Trim(PosTrimmedLines[k]))) >= 13}

\* C22: the first line of the trimmed document never produces a Position,
\* whatever it holds, and every later line of at least 13 fields produces
\* one: the records are those of the later well-formed lines, in order.
C22_HeaderSkippedByPosition ==
    posPc = "done" =>
        /\ Len(positions) = Cardinality(C22Rows)
        /\ \A n \in 1..Len(positions) :
              positions[n] =
                  PositionOf(parseCSVLine(Trim(PosTrimmedLines[Nth(C22Rows, n)])))

\* a document with no header: its first line is the Microsoft row, and the
\* only record is the Amazon row
C22_Witness ==
    /\ posPc = "done"
    /\ posContent = JoinLines(<<PosRowA, PosRowB>>)
    /\ Len(positions) = 1
    /\ positions[1].name = "Amazon"

(***************************************************************************)
(* The comparator and the order of the pairs it judges equal.              *)
(***************************************************************************)
\* the value of the comparator on rows i and j of the array the sort is
\* given
C23Order(i, j) ==
    Comparator(sortArgs.table, sortArgs.key, sortArgs.direction,
               sortOut.filtered[i], sortOut.filtered[j])

\* the comparator is the numeric difference on two numbers, the lexical
\* comparison on two texts, 0 on a number and a text
C23Rule(i, j) ==
    LET a == FieldValue(sortArgs.table, sortOut.filtered[i], sortArgs.key)
        b == FieldValue(sortArgs.table, sortOut.filtered[j], sortArgs.key)
        asc == sortArgs.direction = "asc"
    IN  IF a.kind = "number" /\ b.kind = "number"
        THEN C23Order(i, j) = (IF asc THEN a.num - b.num ELSE b.num - a.num)
        ELSE IF a.kind = "string" /\ b.kind = "string"
        THEN C23Order(i, j) = (IF asc THEN LocaleCompare(a.text, b.text)
                               ELSE LocaleCompare(b.text, a.text))
        ELSE C23Order(i, j) = 0

\* pi takes the place of every row in the array given to its place in the
\* sorted array, and the rows of a pair judged equal keep their order
C23KeepsEqualPairs(pi) ==
    /\ \A i \in DOMAIN pi : sortOut.sorted[pi[i]] = sortOut.filtered[i]
    /\ \A i, j \in DOMAIN pi :
          (i < j /\ C23Order(i, j) = 0) => pi[i] < pi[j]

\* C23: on the selected field the comparator returns the direction-adjusted
\* numeric difference of two numbers, the direction-adjusted lexical
\* comparison of two texts and 0 for a number and a text, and the rows of a
\* pair judged equal are in the result in the order they had in the input.
C23_EqualPairsKeepOrder ==
    sortPc = "rendered" =>
        /\ \A i, j \in 1..Len(sortOut.filtered) : C23Rule(i, j)
        /\ \E pi \in Permutations(1..Len(sortOut.filtered)) :
              C23KeepsEqualPairs(pi)

(***************************************************************************)
(* The order of the requests and the parses in loadData.                   *)
(***************************************************************************)
\* every request has completed with a response
AllCompleted == \A d \in Docs : responses[d] \in {"ok", "notok"}

\* C24: the four requests are issued in one step, none waiting for
\* another, and no parse function is called before all four requests have
\* completed.
C24_RequestsTogetherParseAfter ==
    /\ [](\/ \A d \in Docs : responses[d] = "unsent"
          \/ \A d \in Docs : responses[d] # "unsent")
    /\ [](parsed # {} => AllCompleted)
    /\ [][parsed' # parsed => AllCompleted]_vars

\* the load has finished with the four parse functions called, after the
\* four requests completed
C24_Witness ==
    /\ parsed = {"parsePositionsCSV", "parseSummaryCSV",
                 "parseBuyHistoryCSV", "parseSellHistoryCSV"}
    /\ AllCompleted
    /\ appPc = "done"

\* the rows the positions table owes its reader: the positions filtered by
\* the selector, then sorted by the field and the direction
C25Owed ==
    sortedRows("positions", filteredPositions(viewPositions, selectedAccount),
               sortKey["positions"], sortDirection["positions"]).sorted

\* C25: after any sequence of account selections and header clicks the rows
\* PortfolioTable displays are the current positions filtered by the current
\* selector and sorted by the current field and direction, and no step
\* changes the positions sequence
C25_DisplayedRowsAreCurrent ==
    /\ [](sortKey["positions"] # "unmounted" => sortedMemo.value = C25Owed)
    /\ [][viewPositions' = viewPositions]_vars

\* an account is selected and the direction was turned by a second click on
\* the name header: the rows displayed are those of the account, fewer than
\* the positions
C25_Witness ==
    /\ viewPc = "shown" /\ sortKey["positions"] = "name"
    /\ lastClicked = "name" /\ streak = 2
    /\ sortDirection["positions"] = "asc"
    /\ selectedAccount = "ISA"
    /\ Len(sortedMemo.value) = 2
    /\ Len(viewPositions) = 3
    /\ \A k \in 1..2 : sortedMemo.value[k].accountType = "ISA"


\* a step is a header click when it records the header clicked
C26Click ==
    /\ lastClicked' # ""
    /\ lastClicked' # lastClicked \/ streak' # streak

\* C26: a header click in one table changes the sort field and direction of
\* that table only and leaves the other tables' sort field and direction,
\* the selected account and the parsed records unchanged; a change of the
\* account leaves every table's sort field and direction unchanged
C26_SortStatePerTable ==
    /\ [][C26Click =>
            /\ \E t \in Tables :
                  /\ sortKey[t] # "unmounted"
                  /\ sortKey'[t] = lastClicked'
                  /\ \A u \in Tables \ {t} :
                        /\ sortKey'[u] = sortKey[u]
                        /\ sortDirection'[u] = sortDirection[u]
            /\ selectedAccount' = selectedAccount
            /\ viewPositions' = viewPositions
            /\ viewBuyHistory' = viewBuyHistory
            /\ viewSellHistory' = viewSellHistory]_vars
    /\ [][selectedAccount' # selectedAccount =>
            /\ sortKey' = sortKey
            /\ sortDirection' = sortDirection]_vars

\* the name header of the buy-history table was clicked while an account
\* was selected and positions were loaded
C26_Witness ==
    /\ viewPc = "shown" /\ activeTab = "buy-history"
    /\ lastClicked = "name" /\ sortKey["buy"] = "name"
    /\ sortKey["positions"] = "unmounted"
    /\ selectedAccount = "ISA"
    /\ Len(viewPositions) = 1 /\ Len(viewBuyHistory) = 2

\* the token without quotes, commas and the white space around it, and
\* without a + that leads it
SignStripped(value) ==
    LET c == Trim(Strip(value, {"\"", ","}))
    IN  IF Len(c) > 0 /\ Char(c, 1) = "+" THEN Rest(c, 2) ELSE c

\* C27: parseNumber removes a + only when it leads the token; a token with
\* a + anywhere else that is then not wholly a number, such as 1+2, is not
\* made a number by deleting the + but yields 0
C27_PlusOnlyAsLeadingSign ==
    (/\ tokPc = "number"
     /\ Includes(SignStripped(token), "+")
     /\ ~WhollyNumber(SignStripped(token))) => numberOut = 0

\* the fields joined with commas: fields.join(',')
RECURSIVE JoinCommas(_)
JoinCommas(fields) ==
    IF Len(fields) = 0 THEN ""
    ELSE IF Len(fields) = 1 THEN fields[1]
    ELSE fields[1] \o "," \o JoinCommas(Tail(fields))

\* the commas of the whole line met while the in-quotes flag is off
C28Separators ==
    {k \in 1..Len(line) : Char(line, k) = "," /\ QuotesBefore(k - 1) % 2 = 0}

\* C28: parseCSVLine returns at least one field, one more than the commas
\* met while the in-quotes flag is off, and the fields joined with commas
\* are the line without its double quotes
C28_FieldsRejoinToLine ==
    csvPc = "done" =>
        /\ Len(result) >= 1
        /\ Len(result) = 1 + Cardinality(C28Separators)
        /\ JoinCommas(result) = Strip(line, {"\""})
        /\ result = parseCSVLine(line)

\* an empty first field, a separating comma and a quoted comma
C28_Witness ==
    /\ csvPc = "done"
    /\ line = ",\",\""
    /\ result = <<"", ",">>
    /\ JoinCommas(result) = ",,"

\* loadData awaits the body of document d
AwaitsBody(d) ==
    \/ d = "positions" /\ appPc = "positionsText"
    \/ d = "summary" /\ appPc = "summaryText"
    \/ d = "buy" /\ appPc = "buy" /\ Ok("buy")
    \/ d = "sell" /\ appPc = "sell" /\ Ok("sell")

\* every read of a body settles: loadData stands at none of them for ever
BodiesSettle ==
    /\ []<>(~AwaitsBody("positions")) /\ []<>(~AwaitsBody("summary"))
    /\ []<>(~AwaitsBody("buy")) /\ []<>(~AwaitsBody("sell"))

\* C29 as stated: loading is true at first; when the requests settle
\* loading becomes false in the end and is never true again, and whenever
\* loading is false the error is set or the snapshot is set
C29_LoadFinishes ==
    /\ loading = TRUE
    /\ <>(loading = FALSE)
    /\ [][loading = FALSE => loading' = FALSE]_vars
    /\ [](loading = FALSE => (error # "" \/ portfolioData # <<>>))

\* C29 as amended: loading is true at first; when the requests settle and
\* every read of a body that loadData awaits settles, loading becomes false
\* in the end; it is never true again, and whenever loading is false the
\* error is set or the snapshot is set
C29_LoadFinishesWhenBodiesSettle ==
    /\ loading = TRUE
    /\ BodiesSettle => <>(loading = FALSE)
    /\ [][loading = FALSE => loading' = FALSE]_vars
    /\ [](loading = FALSE => (error # "" \/ portfolioData # <<>>))

\* the load is over after the four bodies were read: loading is off and
\* the snapshot is set, with no error
C29_Witness ==
    /\ appPc = "done" /\ loading = FALSE
    /\ error = "" /\ portfolioData # <<>>
    /\ \A d \in Docs : responses[d] = "ok" /\ bodies[d] = "read"

\* the table of the tab is on the screen: the positions table always, a
\* history table when its history is not empty
C30Visible(t, tab) ==
    /\ tab = (IF t = "positions" THEN "portfolio"
              ELSE IF t = "buy" THEN "buy-history" ELSE "sell-history")
    /\ t = "buy" => Len(viewBuyHistory) > 0
    /\ t = "sell" => Len(viewSellHistory) > 0

\* the sort state of table t is the one it is given when it mounts
C30Default(key, direction, t) ==
    /\ key[t] = (IF t = "positions" THEN "valueGBP" ELSE "date")
    /\ direction[t] = "desc"

\* C30: a table that becomes visible, on the initial load and on every
\* switch to its tab, is sorted descending by valueGBP (positions) or by
\* date (buy and sell history), whatever was chosen before the tab was left
C30_VisibleTableStartsDefault ==
    /\ C30Default(sortKey, sortDirection, "positions")
    /\ [][activeTab' # activeTab =>
            \A t \in Tables :
               C30Visible(t, activeTab')
                  => C30Default(sortKey', sortDirection', t)]_vars

\* the buy-history table has just become visible, with an account selected
\* under the portfolio tab before
C30_Witness ==
    /\ viewPc = "shown" /\ activeTab = "buy-history"
    /\ Len(viewBuyHistory) = 2
    /\ sortKey["buy"] = "date" /\ sortDirection["buy"] = "desc"
    /\ lastClicked = "" /\ selectedAccount = "Trading"

====
